---------------------------- MODULE Spec2Model ----------------------------
(***************************************************************************)
(* RFM95 LoRa driver over a pluggable SPI transport, and the CH341         *)
(* USB-to-SPI bridge backend.                                              *)
(*                                                                         *)
(* Radio part (src/src/RFM95.cpp): the driver talks to the radio through   *)
(* SPIInterface::transfer only.  A register operation is one transfer; the *)
(* transfers one driver step issues are recorded, in order, in `bus'.      *)
(* Bridge part (src/src/CH341SPI.cpp): a transfer is a series of USB bulk  *)
(* calls, each of which may fail; they are recorded in `usb'.              *)
(***************************************************************************)
EXTENDS Integers, Sequences, FiniteSets, TLC

(***************************************************************************)
(* Register addresses, modes and IRQ masks (src/include/RFM95.hpp).        *)
(***************************************************************************)
\* CH341 command bytes (src/include/CH341Config.hpp).
CMD_SPI_STREAM == 168
CMD_UIO_STREAM == 171
CMD_UIO_STM_OUT == 128
CMD_UIO_STM_DIR == 64
CMD_UIO_STM_END == 32
CMD_I2C_STREAM == 170
CMD_I2C_STM_SET == 96
CMD_I2C_STM_END == 0
\* The output bytes of the chip-select commands: high (idle) and low.
UIO_CS_HIGH == 55
UIO_CS_LOW == 54
\* The dummy byte clocked out for each byte read.
SPI_DUMMY == 255

PIN_D0 == 1
PIN_D5 == 32
\* The status bit the monitoring thread watches (INT#).
INT_MASK == 64

REG_FIFO == 0
REG_OP_MODE == 1
REG_FRF_MSB == 6
REG_FRF_MID == 7
REG_FRF_LSB == 8
REG_PA_CONFIG == 9
REG_LNA == 12
REG_FIFO_ADDR_PTR == 13
REG_FIFO_TX_BASE_ADDR == 14
REG_FIFO_RX_BASE_ADDR == 15
REG_FIFO_RX_CURRENT_ADDR == 16
REG_IRQ_FLAGS_MASK == 17
REG_IRQ_FLAGS == 18
REG_RX_NB_BYTES == 19
REG_MODEM_CONFIG_1 == 29
REG_MODEM_CONFIG_2 == 30
REG_PAYLOAD_LENGTH == 34
REG_MODEM_CONFIG_3 == 38
REG_DETECTION_OPTIMIZE == 49
REG_INVERTIQ == 51
REG_DETECTION_THRESHOLD == 55
REG_INVERTIQ2 == 59
\* The two registers the temperature functions address by number.
REG_TEMP_CAL == 59
REG_TEMP_RAW == 60
REG_DIO_MAPPING_1 == 64
REG_DIO_MAPPING_2 == 65
REG_VERSION == 66
REG_PA_DAC == 77

\* Bit 7 of REG_PA_CONFIG.
PA_BOOST == 128

MODE_SLEEP == 0
MODE_STDBY == 1
MODE_TX == 3
MODE_RX_CONTINUOUS == 5

IRQ_TX_DONE_MASK == 8
IRQ_PAYLOAD_CRC_ERROR_MASK == 32
IRQ_RX_DONE_MASK == 64

\* The chip revision begin() expects, and the fixed transmit timeout of send().
EXPECTED_VERSION == 18
TX_TIMEOUT_MS == 2000
\* std::vector<uint8_t>::size() limit accepted by send().
MAX_PAYLOAD == 255

\* The two IQ register pairs written by setInvertIQ.
IQ_INVERTED == 102
IQ2_INVERTED == 25
IQ_NORMAL == 39
IQ2_NORMAL == 29

(***************************************************************************)
(* Bounds of the model.                                                    *)
(***************************************************************************)
\* A transport failure plan names the ordinal (within one driver step) of a
\* transfer that fails; ordinals up to these bounds are enumerated.
MaxFailAt == 15
MaxSetupFailAt == 1
MaxPollFailAt == 2
\* Iterations of a wait loop followed within one call.
MaxPolls == 3
\* The most bytes a transfer is asked to read, and the most matching
\* devices on the USB bus.
MaxRead == 2
MaxDevices == 2
\* The most transfers one temperature call issues.
MaxTempFailAt == 5
\* The most libusb handles a session is followed to hold at once.
MaxHandles == 2
\* The CH341SPI objects of one process.
MaxSessions == 2

Byte == 0..255

RegAddrs ==
    { REG_FIFO, REG_OP_MODE, REG_PA_CONFIG, REG_LNA, REG_FIFO_ADDR_PTR,
      REG_FIFO_TX_BASE_ADDR, REG_FIFO_RX_BASE_ADDR, REG_FIFO_RX_CURRENT_ADDR,
      REG_IRQ_FLAGS_MASK, REG_IRQ_FLAGS, REG_RX_NB_BYTES, REG_MODEM_CONFIG_1,
      REG_MODEM_CONFIG_2, REG_PAYLOAD_LENGTH, REG_MODEM_CONFIG_3, REG_INVERTIQ,
      REG_INVERTIQ2, REG_DIO_MAPPING_1, REG_DIO_MAPPING_2, REG_VERSION,
      REG_PA_DAC, REG_FRF_MSB, REG_FRF_MID, REG_FRF_LSB,
      REG_DETECTION_OPTIMIZE, REG_DETECTION_THRESHOLD, REG_TEMP_RAW }

(***************************************************************************)
(* uint8_t bit operations.                                                 *)
(***************************************************************************)
RECURSIVE BitAnd(_, _)
BitAnd(a, b) ==
    IF a = 0 \/ b = 0 THEN 0
    ELSE (a % 2) * (b % 2) + 2 * BitAnd(a \div 2, b \div 2)

BitOr(a, b) == a + b - BitAnd(a, b)

VARIABLES
    \* ---- radio driver (RFM95) ----
    op,          \* the public operation called: "none", "begin", "send",
                 \* "receive", or the name of a setter / getter
    pc,          \* "idle", "tx_wait" / "rx_wait" (inside a polling loop), "returned"
    regs,        \* the radio's register file: last value it accepted per address
    version,     \* what the radio answers at REG_VERSION
    bus,         \* the register transfers of the latest driver step, in order
    clock,       \* std::chrono::steady_clock, in ms
    start_time,  \* `start' / `start_time' of the polling loop
    data,        \* send(): payload argument
    invert_iq,   \* send()/receive(): invert_iq argument
    timeout,     \* receive(): timeout argument, in ms
    polls,       \* iterations of the wait loop begun so far in the call
    result,      \* bool returned by begin() / send() / calibrateTemperature()
    packet,      \* vector returned by receive()
    cfg_arg,     \* the arguments of the setter called last, as a tuple
    cfg_ret      \* the number returned by the getter called last

radioVars ==
    << op, pc, regs, version, bus, clock, start_time, data, invert_iq,
       timeout, polls, result, packet, cfg_arg, cfg_ret >>

VARIABLES
    \* ---- bridge session (CH341SPI) ----
    context,      \* libusb context is non-null
    device,       \* device handle is non-null
    lsb_first,    \* constructor argument
    xop,          \* the operation running, or the last one that returned
    xpc,          \* position inside transfer(); "idle" when no call is running
    write_data,   \* transfer(): argument
    read_length,  \* transfer(): argument
    xi,           \* transfer(): loop index i
    xfer_result,  \* transfer(): the vector `result'
    open_result,  \* bool returned by the last open()
    usb,          \* the bulk calls of the running / last operation, in order
    chip_out,     \* the bridge chip's output latch (6 bits), as last commanded
    chip_dir      \* the bridge chip's direction latch (6 bits), as last commanded

bridgeVars ==
    << context, device, lsb_first, xop, xpc, write_data, read_length, xi,
       xfer_result, open_result, usb, chip_out, chip_dir >>

VARIABLES
    \* ---- bridge session: construction, libusb resources, isActive ----
    device_index,   \* constructor argument
    attached,       \* matching devices on the USB bus, in enumeration order
    opened,         \* enumeration position of the device `device' refers to
    handles,        \* libusb handles of this session opened and not yet closed
    is_open,        \* the member isActive() returns
    active_result,  \* bool returned by the last isActive()
    closed_since    \* close() was called after the latest open()

sessionVars ==
    << device_index, attached, opened, handles, is_open, active_result,
       closed_since >>

VARIABLES
    \* ---- bridge session: GPIO ----
    gpio_direction, \* _gpio_direction
    gpio_output,    \* _gpio_output
    gpio_pin,       \* argument of the last digitalWrite / digitalRead / pinMode
    gpio_level,     \* digitalWrite: value; pinMode: mode == OUTPUT
    gpio_result     \* bool returned by the last GPIO call

gpioVars ==
    << gpio_direction, gpio_output, gpio_pin, gpio_level, gpio_result >>

VARIABLES
    \* ---- bridge sessions: interrupt monitoring ----
    sessions,          \* the CH341SPI objects of the process
    interruptCallback, \* per session: a callback is registered
    interruptEnabled,  \* per session
    threadRunning,     \* per session: the flag as the caller's thread wrote it
    seenRunning,       \* per session: the flag as the monitoring thread reads it
    mon_pc,            \* per session: position of interruptMonitoringThread
    caller,            \* position of the caller's thread inside a joining call
    irq_result,        \* bool returned by the last enableInterrupt()
    lastState,         \* the function-local static of interruptMonitoringThread
    polled,            \* per session: levels of bit 0x40 at its last two
                       \* successful polls, the older one first
    fired              \* per session: its latest poll invoked the callback

threadVars ==
    << sessions, interruptCallback, interruptEnabled, threadRunning, seenRunning,
       mon_pc, caller, irq_result, lastState, polled, fired >>

VARIABLES
    \* ---- Linux SPI session (LinuxSPI) ----
    fd,             \* the descriptor of the SPI device is open (fd >= 0)
    lx_write_data,  \* transfer(): argument
    lx_read_length, \* transfer(): argument
    rx_buffer,      \* transfer(): the bytes the ioctl received, one per byte
                    \* clocked; empty when no ioctl ran or it failed
    lx_result       \* transfer(): the vector returned

linuxVars == << fd, lx_write_data, lx_read_length, rx_buffer, lx_result >>

hostVars == << sessionVars, gpioVars, threadVars, linuxVars >>

vars == << radioVars, bridgeVars, hostVars >>


(***************************************************************************)
(* One driver step runs against a machine: the radio's registers, the      *)
(* transfers issued so far in the step, the transport's failure plan for   *)
(* the step, and what the radio's status registers answer during the step. *)
(*   plan: [kind |-> "none"] no transfer fails;                            *)
(*         [kind |-> "at", k]   only the k-th transfer of the step fails;  *)
(*         [kind |-> "from", k] the k-th and every later transfer fail.    *)
(*   env:  irq  - value of the IRQ-flags register,                         *)
(*         nb   - value of the RX byte-count register,                     *)
(*         cur  - value of the current-RX-address register,                *)
(*         seed - first byte the FIFO yields; each FIFO read yields the    *)
(*                next byte (seed, seed+1, ...).                           *)
(***************************************************************************)
NoFail == [kind |-> "none", k |-> 0]

PlansUpTo(n) ==
    {NoFail} \cup { [kind |-> kd, k |-> i] : kd \in {"at", "from"}, i \in 1..n }

QuietEnv == [irq |-> 0, nb |-> 0, cur |-> 0, seed |-> 0]

Machine(r, plan, env) ==
    [ regs |-> r, bus |-> <<>>, plan |-> plan, env |-> env,
      resp |-> <<>>, val |-> 0, pkt |-> <<>> ]

Fails(plan, k) ==
    \/ plan.kind = "at" /\ k = plan.k
    \/ plan.kind = "from" /\ k >= plan.k

\* How many of the transfers with ordinals lo..hi of a step reach the radio.
OkCount(plan, lo, hi) ==
    IF hi < lo THEN 0
    ELSE CASE plan.kind = "at" ->
                (hi - lo + 1) - (IF lo <= plan.k /\ plan.k <= hi THEN 1 ELSE 0)
           [] plan.kind = "from" ->
                IF plan.k <= lo THEN 0
                ELSE IF plan.k > hi THEN hi - lo + 1 ELSE plan.k - lo
           [] OTHER -> hi - lo + 1

\* FIFO reads that reached the radio so far in the step.
FifoReads(b) ==
    Cardinality({ i \in 1..Len(b) : b[i].op = "r" /\ b[i].addr = REG_FIFO /\ b[i].ok })

\* What the radio answers when the register at addr is read.
ChipRead(m, addr) ==
    CASE addr = REG_IRQ_FLAGS -> m.env.irq
      [] addr = REG_RX_NB_BYTES -> m.env.nb
      [] addr = REG_FIFO_RX_CURRENT_ADDR -> m.env.cur
      [] addr = REG_FIFO -> (m.env.seed + FifoReads(m.bus)) % 256
      [] addr = REG_VERSION -> version
      [] OTHER -> m.regs[addr]

\* SPIInterface::transfer as the driver uses it: cmd[1] is the address byte
\* (bit 7 set: write cmd[2]); a failed transfer reaches no register and
\* returns the empty vector; a write requests no bytes and returns the empty
\* vector as well.
transfer(m, cmd, nread) ==
    LET ok == ~Fails(m.plan, Len(m.bus) + 1)
        addr == cmd[1] % 128
        isWrite == cmd[1] >= 128
        rsp == IF ok /\ nread = 1 THEN << ChipRead(m, addr) >> ELSE <<>>
    IN  [ m EXCEPT
            !.regs = IF ok /\ isWrite THEN [m.regs EXCEPT ![addr] = cmd[2]] ELSE m.regs,
            !.resp = rsp,
            !.bus = Append(m.bus,
                       [ op |-> IF isWrite THEN "w" ELSE "r",
                         addr |-> addr,
                         val |-> IF isWrite THEN cmd[2]
                                 ELSE IF rsp # <<>> THEN rsp[1] ELSE 0,
                         ok |-> ok ]) ]

\* RFM95::readRegister: the value read is left in m.val (0 on failure).
readRegister(m, address) ==
    LET t == transfer(m, << BitAnd(address, 127) >>, 1)
    IN  [ t EXCEPT !.val = IF t.resp # <<>> THEN t.resp[1] ELSE 0 ]

\* RFM95::writeRegister: the transfer's result is dropped.
writeRegister(m, address, value) ==
    transfer(m, << BitOr(address, 128), value >>, 0)

\* A run of writeRegister calls, ws a sequence of <<address, value>>.
RECURSIVE writeRegisters(_, _)
writeRegisters(m, ws) ==
    IF ws = <<>> THEN m
    ELSE writeRegisters(writeRegister(m, ws[1][1], ws[1][2]), Tail(ws))

\* RFM95::readVersionRegister
readVersionRegister(m) ==
    LET t == transfer(m, << REG_VERSION >>, 1)
    IN  [ t EXCEPT !.val = IF t.resp # <<>> THEN t.resp[1] ELSE 0 ]

\* RFM95::standbyMode
standbyMode(m) == writeRegister(m, REG_OP_MODE, MODE_STDBY)

\* RFM95::sleepMode
sleepMode(m) ==
    LET m1 == readRegister(m, REG_OP_MODE)
    IN  writeRegister(m1, REG_OP_MODE, BitOr(BitAnd(m1.val, 248), MODE_SLEEP))

\* RFM95::setInvertIQ
setInvertIQ(m, invert) ==
    IF invert
    THEN writeRegisters(m, << <<REG_INVERTIQ, IQ_INVERTED>>, <<REG_INVERTIQ2, IQ2_INVERTED>> >>)
    ELSE writeRegisters(m, << <<REG_INVERTIQ, IQ_NORMAL>>, <<REG_INVERTIQ2, IQ2_NORMAL>> >>)

\* RFM95::setDIOMapping
setDIOMapping(m, dio3, dio4) ==
    LET m1 == readRegister(m, REG_DIO_MAPPING_1)
        m2 == writeRegister(m1, REG_DIO_MAPPING_1,
                            BitOr(BitAnd(m1.val, 63), BitAnd(dio3, 192)))
        m3 == readRegister(m2, REG_DIO_MAPPING_2)
        m4 == writeRegister(m3, REG_DIO_MAPPING_2,
                            BitOr(BitAnd(m3.val, 63), BitAnd(dio4, 192)))
    IN  writeRegisters(m4, << <<REG_IRQ_FLAGS_MASK, 0>>, <<REG_IRQ_FLAGS, 255>> >>)

(***************************************************************************)
(* RFM95::begin.  openOk is what spi->open() returned.  The result is the  *)
(* machine after the call with the returned bool in field ret.             *)
(***************************************************************************)
beginWrites ==
    << <<REG_OP_MODE, 128>>,
       <<REG_FIFO_TX_BASE_ADDR, 0>>, <<REG_FIFO_RX_BASE_ADDR, 0>>,
       <<REG_MODEM_CONFIG_1, 114>>, <<REG_MODEM_CONFIG_2, 112>>,
       <<REG_MODEM_CONFIG_3, 4>>,
       <<REG_PA_CONFIG, 143>>, <<REG_PA_DAC, 135>>,
       <<REG_LNA, 35>>,
       <<REG_FIFO_ADDR_PTR, 0>> >>

\* begin with the revision check moved behind the configuration writes.
begin_checkVersionLast(m, openOk) ==
    IF ~openOk THEN [ m |-> m, ret |-> FALSE ]
    ELSE LET m1 == readVersionRegister(sleepMode(m))
             m2 == standbyMode(writeRegisters(m1, beginWrites))
         IN  [ m |-> m2, ret |-> m1.val = EXPECTED_VERSION ]

begin(m, openOk) ==
    IF ~openOk THEN [ m |-> m, ret |-> FALSE ]
    ELSE LET m1 == readVersionRegister(sleepMode(m))
         IN  IF m1.val # EXPECTED_VERSION
             THEN [ m |-> m1, ret |-> FALSE ]
             ELSE [ m |-> standbyMode(writeRegisters(m1, beginWrites)), ret |-> TRUE ]


(***************************************************************************)
(* RFM95::send.  sendSetup is the code up to and including the switch to   *)
(* transmit mode; sendPoll is one iteration of the wait loop, `now' being  *)
(* the clock sampled after the flags were read.  next tells how the        *)
(* iteration ends: "return" or "sleep".                                    *)
(***************************************************************************)
\* The loop `for (uint8_t byte : data) writeRegister(REG_FIFO, byte)': the
\* i-th byte goes out as the (Len(m.bus) + i)-th transfer of the step.
writeFifo(m, d) ==
    LET okAt(i) == ~Fails(m.plan, Len(m.bus) + i)
        sent == { i \in 1..Len(d) : okAt(i) }
        last == CHOOSE i \in sent : \A j \in sent : j <= i
    IN  [ m EXCEPT
            !.regs = IF sent = {} THEN m.regs
                     ELSE [ m.regs EXCEPT ![REG_FIFO] = d[last] ],
            !.resp = <<>>,
            !.bus = m.bus \o [ i \in 1..Len(d) |->
                        [ op |-> "w", addr |-> REG_FIFO, val |-> d[i], ok |-> okAt(i) ] ] ]

\* sendSetup with the payload length fixed to the size of the FIFO.
sendSetup_fullLength(m, d, inv) ==
    LET m1 == standbyMode(setDIOMapping(setInvertIQ(m, inv), 64, 64))
        m2 == readRegister(m1, REG_DIO_MAPPING_1)
        m3 == writeRegister(m2, REG_DIO_MAPPING_1, BitOr(BitAnd(m2.val, 63), 64))
        m4 == writeRegisters(m3, << <<REG_IRQ_FLAGS, 255>>, <<REG_FIFO_ADDR_PTR, 0>> >>)
        m5 == writeFifo(m4, d)
    IN  writeRegisters(m5, << <<REG_PAYLOAD_LENGTH, MAX_PAYLOAD>>,
                              <<REG_OP_MODE, MODE_TX>> >>)

\* sendSetup switching to transmit mode before the FIFO is filled.
sendSetup_txFirst(m, d, inv) ==
    LET m1 == standbyMode(setDIOMapping(setInvertIQ(m, inv), 64, 64))
        m2 == readRegister(m1, REG_DIO_MAPPING_1)
        m3 == writeRegister(m2, REG_DIO_MAPPING_1, BitOr(BitAnd(m2.val, 63), 64))
        m4 == writeRegisters(m3, << <<REG_IRQ_FLAGS, 255>>, <<REG_OP_MODE, MODE_TX>>,
                                    <<REG_FIFO_ADDR_PTR, 0>> >>)
        m5 == writeFifo(m4, d)
    IN  writeRegister(m5, REG_PAYLOAD_LENGTH, Len(d) % 256)

sendSetup(m, d, inv) ==
    LET m1 == standbyMode(setDIOMapping(setInvertIQ(m, inv), 64, 64))
        m2 == readRegister(m1, REG_DIO_MAPPING_1)
        m3 == writeRegister(m2, REG_DIO_MAPPING_1, BitOr(BitAnd(m2.val, 63), 64))
        m4 == writeRegisters(m3, << <<REG_IRQ_FLAGS, 255>>, <<REG_FIFO_ADDR_PTR, 0>> >>)
        m5 == writeFifo(m4, d)
    IN  writeRegisters(m5, << <<REG_PAYLOAD_LENGTH, Len(d) % 256>>,
                              <<REG_OP_MODE, MODE_TX>> >>)

\* sendPoll without the timeout branch.
sendPoll_noTimeout(m, inv, now, start) ==
    LET m1 == readRegister(m, REG_IRQ_FLAGS)
    IN  IF BitAnd(m1.val, IRQ_TX_DONE_MASK) # 0
        THEN LET m2 == standbyMode(writeRegister(m1, REG_IRQ_FLAGS, 255))
             IN  [ m |-> IF inv THEN setInvertIQ(m2, FALSE) ELSE m2,
                   next |-> "return", ret |-> TRUE ]
        ELSE [ m |-> m1, next |-> "sleep", ret |-> FALSE ]

\* sendPoll clearing the flags and going to standby on the timeout as well.
sendPoll_standbyOnTimeout(m, inv, now, start) ==
    LET m1 == readRegister(m, REG_IRQ_FLAGS)
        m2 == standbyMode(writeRegister(m1, REG_IRQ_FLAGS, 255))
    IN  IF BitAnd(m1.val, IRQ_TX_DONE_MASK) # 0
        THEN [ m |-> IF inv THEN setInvertIQ(m2, FALSE) ELSE m2,
               next |-> "return", ret |-> TRUE ]
        ELSE IF now - start > TX_TIMEOUT_MS
        THEN [ m |-> IF inv THEN setInvertIQ(m2, FALSE) ELSE m2,
               next |-> "return", ret |-> FALSE ]
        ELSE [ m |-> m1, next |-> "sleep", ret |-> FALSE ]

sendPoll(m, inv, now, start) ==
    LET m1 == readRegister(m, REG_IRQ_FLAGS)
    IN  IF BitAnd(m1.val, IRQ_TX_DONE_MASK) # 0
        THEN LET m2 == standbyMode(writeRegister(m1, REG_IRQ_FLAGS, 255))
             IN  [ m |-> IF inv THEN setInvertIQ(m2, FALSE) ELSE m2,
                   next |-> "return", ret |-> TRUE ]
        ELSE IF now - start > TX_TIMEOUT_MS
        THEN [ m |-> IF inv THEN setInvertIQ(m1, FALSE) ELSE m1,
               next |-> "return", ret |-> FALSE ]
        ELSE [ m |-> m1, next |-> "sleep", ret |-> FALSE ]

(***************************************************************************)
(* RFM95::receive.  recvSetup is the code before the wait loop; recvPoll   *)
(* is one iteration of the loop.  next is "return" (m.pkt is returned),    *)
(* "continue" (the CRC-error branch: back to the top of the loop) or       *)
(* "sleep" (the 1 ms sleep at the bottom of the loop).  tmo is             *)
(* timeout * 1000.                                                         *)
(***************************************************************************)
recvSetup(m, inv) ==
    LET m1 == writeRegister(setInvertIQ(m, inv), REG_OP_MODE, MODE_RX_CONTINUOUS)
    IN  writeRegister(setDIOMapping(m1, 64, 192), REG_IRQ_FLAGS, 255)

\* The FIFO read loop: n readRegister(REG_FIFO) calls, each value pushed back
\* onto pkt.  The i-th read is the (Len(m.bus) + i)-th transfer of the step; a
\* read that reaches the radio yields the FIFO's next byte, a failed one 0.
readFifo(m, n) ==
    LET okAt(i) == ~Fails(m.plan, Len(m.bus) + i)
        base == m.env.seed + FifoReads(m.bus)
        before(i) == OkCount(m.plan, Len(m.bus) + 1, Len(m.bus) + i - 1)
        valAt(i) == IF okAt(i) THEN (base + before(i)) % 256 ELSE 0
        vals == [ i \in 1..n |-> valAt(i) ]
    IN  [ m EXCEPT
            !.pkt = m.pkt \o vals,
            !.val = IF n = 0 THEN m.val ELSE vals[n],
            !.resp = IF n = 0 THEN m.resp ELSE IF okAt(n) THEN << vals[n] >> ELSE <<>>,
            !.bus = m.bus \o [ i \in 1..n |->
                        [ op |-> "r", addr |-> REG_FIFO, val |-> vals[i], ok |-> okAt(i) ] ] ]

\* The timeout check at the bottom of the loop.
recvTimeoutCheck(m, inv, now, start, tmo) ==
    IF now - start > tmo
    THEN LET m1 == writeRegister(m, REG_IRQ_FLAGS, 255)
         IN  [ m |-> [ (IF inv THEN setInvertIQ(m1, FALSE) ELSE m1) EXCEPT !.pkt = <<>> ],
               next |-> "return" ]
    ELSE [ m |-> m, next |-> "sleep" ]

\* recvPoll treating a CRC error as the end of the call (empty result).
recvPoll_crcFails(m, inv, now, start, tmo) ==
    LET m1 == readRegister(m, REG_IRQ_FLAGS)
        irq_flags == m1.val
    IN  IF irq_flags # 0 /\ BitAnd(irq_flags, IRQ_RX_DONE_MASK) # 0
        THEN IF BitAnd(irq_flags, IRQ_PAYLOAD_CRC_ERROR_MASK) # 0
             THEN [ m |-> writeRegister(m1, REG_IRQ_FLAGS, 255), next |-> "return" ]
             ELSE LET m2 == readRegister(m1, REG_RX_NB_BYTES)
                      length == m2.val
                  IN  IF length > 0
                      THEN LET m3 == readRegister(m2, REG_FIFO_RX_CURRENT_ADDR)
                               m4 == writeRegister(m3, REG_FIFO_ADDR_PTR, m3.val)
                               m5 == writeRegister(readFifo(m4, length), REG_IRQ_FLAGS, 255)
                           IN  [ m |-> IF inv THEN setInvertIQ(m5, FALSE) ELSE m5,
                                 next |-> "return" ]
                      ELSE recvTimeoutCheck(m2, inv, now, start, tmo)
        ELSE recvTimeoutCheck(m1, inv, now, start, tmo)

\* recvPoll resetting the FIFO pointer to 0 instead of the current RX address.
recvPoll_ptrZero(m, inv, now, start, tmo) ==
    LET m1 == readRegister(m, REG_IRQ_FLAGS)
        irq_flags == m1.val
    IN  IF irq_flags # 0 /\ BitAnd(irq_flags, IRQ_RX_DONE_MASK) # 0
        THEN IF BitAnd(irq_flags, IRQ_PAYLOAD_CRC_ERROR_MASK) # 0
             THEN [ m |-> writeRegister(m1, REG_IRQ_FLAGS, 255), next |-> "continue" ]
             ELSE LET m2 == readRegister(m1, REG_RX_NB_BYTES)
                      length == m2.val
                  IN  IF length > 0
                      THEN LET m3 == readRegister(m2, REG_FIFO_RX_CURRENT_ADDR)
                               m4 == writeRegister(m3, REG_FIFO_ADDR_PTR, 0)
                               m5 == writeRegister(readFifo(m4, length), REG_IRQ_FLAGS, 255)
                           IN  [ m |-> IF inv THEN setInvertIQ(m5, FALSE) ELSE m5,
                                 next |-> "return" ]
                      ELSE recvTimeoutCheck(m2, inv, now, start, tmo)
        ELSE recvTimeoutCheck(m1, inv, now, start, tmo)

\* recvPoll returning an empty packet, flags cleared, on a byte count of 0.
recvPoll_emptyPacket(m, inv, now, start, tmo) ==
    LET m1 == readRegister(m, REG_IRQ_FLAGS)
        irq_flags == m1.val
    IN  IF irq_flags # 0 /\ BitAnd(irq_flags, IRQ_RX_DONE_MASK) # 0
        THEN IF BitAnd(irq_flags, IRQ_PAYLOAD_CRC_ERROR_MASK) # 0
             THEN [ m |-> writeRegister(m1, REG_IRQ_FLAGS, 255), next |-> "continue" ]
             ELSE LET m2 == readRegister(m1, REG_RX_NB_BYTES)
                      length == m2.val
                      m3 == readRegister(m2, REG_FIFO_RX_CURRENT_ADDR)
                      m4 == writeRegister(m3, REG_FIFO_ADDR_PTR, m3.val)
                      m5 == writeRegister(readFifo(m4, length), REG_IRQ_FLAGS, 255)
                  IN  [ m |-> IF inv THEN setInvertIQ(m5, FALSE) ELSE m5,
                        next |-> "return" ]
        ELSE recvTimeoutCheck(m1, inv, now, start, tmo)

recvPoll(m, inv, now, start, tmo) ==
    LET m1 == readRegister(m, REG_IRQ_FLAGS)
        irq_flags == m1.val
    IN  IF irq_flags # 0 /\ BitAnd(irq_flags, IRQ_RX_DONE_MASK) # 0
        THEN IF BitAnd(irq_flags, IRQ_PAYLOAD_CRC_ERROR_MASK) # 0
             THEN [ m |-> writeRegister(m1, REG_IRQ_FLAGS, 255), next |-> "continue" ]
             ELSE LET m2 == readRegister(m1, REG_RX_NB_BYTES)
                      length == m2.val
                  IN  IF length > 0
                      THEN LET m3 == readRegister(m2, REG_FIFO_RX_CURRENT_ADDR)
                               m4 == writeRegister(m3, REG_FIFO_ADDR_PTR, m3.val)
                               m5 == writeRegister(readFifo(m4, length), REG_IRQ_FLAGS, 255)
                           IN  [ m |-> IF inv THEN setInvertIQ(m5, FALSE) ELSE m5,
                                 next |-> "return" ]
                      ELSE recvTimeoutCheck(m2, inv, now, start, tmo)
        ELSE recvTimeoutCheck(m1, inv, now, start, tmo)


(***************************************************************************)
(* Inputs and environment of the radio driver.                             *)
(***************************************************************************)
\* A radio after power-on (IQ registers at their non-inverted values), and
\* one left in continuous receive with inverted IQ by an earlier use.
FreshRegs ==
    [ a \in RegAddrs |->
        CASE a = REG_INVERTIQ -> IQ_NORMAL
          [] a = REG_INVERTIQ2 -> IQ2_NORMAL
          [] OTHER -> 0 ]

UsedRegs ==
    [ FreshRegs EXCEPT ![REG_OP_MODE] = 128 + MODE_RX_CONTINUOUS,
                       ![REG_INVERTIQ] = IQ_INVERTED,
                       ![REG_INVERTIQ2] = IQ2_INVERTED ]

\* The registers a call of begin() that returned true leaves, no transfer
\* having failed: its configuration writes, then standby.
BegunRegs ==
    standbyMode(writeRegisters(Machine(FreshRegs, NoFail, QuietEnv), beginWrites)).regs

\* A radio as begin() configures the modem, with the payload CRC (bit 2 of
\* modem-config-2) switched on by an earlier user of the chip.
TunedRegs ==
    [ FreshRegs EXCEPT ![REG_MODEM_CONFIG_1] = 114,
                       ![REG_MODEM_CONFIG_2] = 112 + 4 ]

\* A radio configured by begin() on which an earlier user of the chip left
\* bits the driver never sets: the maximum-power field of the power
\* amplifier register (bits 4..6), the implicit-header bit of
\* modem-config-1, the payload CRC bit of modem-config-2 and the low data
\* rate bit of modem-config-3.
CarriedRegs ==
    [ BegunRegs EXCEPT ![REG_PA_CONFIG] = 79,
                       ![REG_MODEM_CONFIG_1] = 114 + 1,
                       ![REG_MODEM_CONFIG_2] = 112 + 4,
                       ![REG_MODEM_CONFIG_3] = 8 + 4 ]

\* The expected revision, two other revisions, and a radio answering 0.
Versions == { EXPECTED_VERSION, EXPECTED_VERSION - 1, 34, 0 }

Ramp(n) == [ i \in 1..n |-> (7 * i) % 256 ]
Payloads == { <<>>, << 72, 105 >>, Ramp(MAX_PAYLOAD), Ramp(MAX_PAYLOAD + 1) }

\* receive's timeout argument, in ms (0 s and 0.1 s).
Timeouts == { 0, 100 }
\* How long the register transfers of one loop iteration take, and how long
\* sleep_for(1 ms) really sleeps, in ms.
IoTimes == { 0, 1 }
\* How long the code before a wait loop takes, in ms.
SetupTime == 1
TxSleepTimes == { 1, 2000 }
RxSleepTimes == { 1, 100 }

TxIrqValues == { 0, IRQ_TX_DONE_MASK, IRQ_RX_DONE_MASK }
RxIrqValues == { 0, IRQ_PAYLOAD_CRC_ERROR_MASK, IRQ_RX_DONE_MASK + 16,
                 IRQ_RX_DONE_MASK + IRQ_PAYLOAD_CRC_ERROR_MASK }
\* <<byte count, current RX address>> the radio reports for a reception.
RxFrames == { << 0, 0 >>, << 2, 0 >>, << 2, 128 >>, << 255, 128 >> }
\* First byte the FIFO yields.
RxSeed == 254

InitRadio(vs, rs) ==
    /\ op = "none"
    /\ pc = "idle"
    /\ regs \in rs
    /\ version \in vs
    /\ bus = <<>>
    /\ clock = 0
    /\ start_time = 0
    /\ data = <<>>
    /\ invert_iq = FALSE
    /\ timeout = 0
    /\ polls = 0
    /\ result = FALSE
    /\ packet = <<>>
    /\ cfg_arg = <<>>
    /\ cfg_ret = 0

(***************************************************************************)
(* Actions of the radio driver.                                            *)
(***************************************************************************)
\* bool RFM95::begin()
Begin ==
    /\ pc = "idle"
    /\ \E plan \in PlansUpTo(MaxFailAt), openOk \in BOOLEAN :
         LET r == begin(Machine(regs, plan, QuietEnv), openOk)
         IN  /\ regs' = r.m.regs
             /\ bus' = r.m.bus
             /\ result' = r.ret
    /\ op' = "begin"
    /\ pc' = "returned"
    /\ UNCHANGED << version, clock, start_time, data, invert_iq, timeout, polls, packet >>
    /\ UNCHANGED << cfg_arg, cfg_ret >>
    /\ UNCHANGED << bridgeVars, hostVars >>

\* bool RFM95::send(data, invert_iq): the call up to the wait loop.
SendCall ==
    /\ pc = "idle"
    /\ \E d \in Payloads, inv \in BOOLEAN, plan \in PlansUpTo(MaxSetupFailAt) :
         /\ data' = d
         /\ invert_iq' = inv
         /\ op' = "send"
         /\ IF Len(d) > MAX_PAYLOAD
            THEN /\ result' = FALSE
                 /\ pc' = "returned"
                 /\ bus' = <<>>
                 /\ UNCHANGED << regs, clock, start_time >>
            ELSE LET m == sendSetup(Machine(regs, plan, QuietEnv), d, inv)
                 IN  /\ regs' = m.regs
                     /\ bus' = m.bus
                     /\ clock' = clock + SetupTime
                     /\ start_time' = clock + SetupTime
                     /\ pc' = "tx_wait"
                     /\ UNCHANGED result
    /\ UNCHANGED << version, timeout, polls, packet, cfg_arg, cfg_ret >>
    /\ UNCHANGED << bridgeVars, hostVars >>

\* One iteration of send's wait loop.
SendPoll ==
    /\ pc = "tx_wait"
    /\ polls < MaxPolls
    /\ polls' = polls + 1
    /\ \E plan \in PlansUpTo(MaxPollFailAt), irq \in TxIrqValues, io \in IoTimes :
         LET now == clock + io
             r == sendPoll(Machine(regs, plan, [QuietEnv EXCEPT !.irq = irq]),
                           invert_iq, now, start_time)
         IN  /\ regs' = r.m.regs
             /\ bus' = r.m.bus
             /\ IF r.next = "return"
                THEN /\ result' = r.ret
                     /\ pc' = "returned"
                     /\ clock' = now
                ELSE /\ \E slp \in TxSleepTimes : clock' = now + slp
                     /\ UNCHANGED << result, pc >>
    /\ UNCHANGED << op, version, start_time, data, invert_iq, timeout, packet >>
    /\ UNCHANGED << cfg_arg, cfg_ret >>
    /\ UNCHANGED << bridgeVars, hostVars >>

\* std::vector<uint8_t> RFM95::receive(timeout, invert_iq): up to the wait loop.
ReceiveCall ==
    /\ pc = "idle"
    /\ \E tmo \in Timeouts, inv \in BOOLEAN, plan \in PlansUpTo(MaxSetupFailAt) :
         LET m == recvSetup(Machine(regs, plan, QuietEnv), inv)
         IN  /\ timeout' = tmo
             /\ invert_iq' = inv
             /\ regs' = m.regs
             /\ bus' = m.bus
             /\ clock' = clock + SetupTime
             /\ start_time' = clock + SetupTime
    /\ op' = "receive"
    /\ pc' = "rx_wait"
    /\ UNCHANGED << version, data, polls, result, packet, cfg_arg, cfg_ret >>
    /\ UNCHANGED << bridgeVars, hostVars >>

\* One iteration of receive's wait loop.
ReceivePoll ==
    /\ pc = "rx_wait"
    /\ polls < MaxPolls
    /\ polls' = polls + 1
    /\ \E plan \in PlansUpTo(MaxPollFailAt), irq \in RxIrqValues,
          fr \in RxFrames, io \in IoTimes :
         LET now == clock + io
             env == [ irq |-> irq, nb |-> fr[1], cur |-> fr[2], seed |-> RxSeed ]
             r == recvPoll(Machine(regs, plan, env), invert_iq, now, start_time, timeout)
         IN  \* the byte count and address matter only to a clean reception
             /\ (BitAnd(irq, IRQ_RX_DONE_MASK) = 0
                   \/ BitAnd(irq, IRQ_PAYLOAD_CRC_ERROR_MASK) # 0)
                  => fr = << 0, 0 >>
             /\ regs' = r.m.regs
             /\ bus' = r.m.bus
             /\ CASE r.next = "return" ->
                       /\ packet' = r.m.pkt
                       /\ pc' = "returned"
                       /\ clock' = now
                  [] r.next = "continue" ->
                       /\ clock' = now
                       /\ UNCHANGED << packet, pc >>
                  [] OTHER ->
                       /\ \E slp \in RxSleepTimes : clock' = now + slp
                       /\ UNCHANGED << packet, pc >>
    /\ UNCHANGED << op, version, start_time, data, invert_iq, timeout, result >>
    /\ UNCHANGED << cfg_arg, cfg_ret >>
    /\ UNCHANGED << bridgeVars, hostVars >>

(***************************************************************************)
(* The temperature functions.  Both save the operating mode, write 0x00    *)
(* (FSK, sleep) to the mode register, use the temperature registers and    *)
(* write the saved value back.  No transfer throws: a transfer that fails  *)
(* returns the empty vector, a failed read yields 0, so the catch blocks   *)
(* are never entered by a transport failure.                               *)
(***************************************************************************)
\* bool RFM95::calibrateTemperature(float actual_temp); cal_value is
\* static_cast<uint8_t>(actual_temp).
calibrateTemperature(m, cal_value) ==
    LET m1 == readRegister(m, REG_OP_MODE)
        current_mode == m1.val
        m2 == writeRegister(m1, REG_OP_MODE, 0)
        m3 == writeRegister(m2, REG_TEMP_CAL, cal_value)
    IN  [ m |-> writeRegister(m3, REG_OP_MODE, current_mode), ret |-> TRUE ]

\* float RFM95::readTemperature()
readTemperature(m) ==
    LET m1 == readRegister(m, REG_OP_MODE)
        current_mode == m1.val
        m2 == writeRegister(m1, REG_OP_MODE, 0)
        m3 == readRegister(m2, REG_TEMP_CAL)
        cal_value == m3.val
        m4 == readRegister(m3, REG_TEMP_RAW)
        raw_temp == m4.val
    IN  [ m |-> writeRegister(m4, REG_OP_MODE, current_mode),
          ret |-> raw_temp + cal_value ]

\* actual_temp, in tenths of a degree.
Temps == { 0, 257, 2550, 0 - 50 }

\* static_cast<uint8_t>(float): the value truncated toward zero; converting
\* a value that does not fit (a negative temperature) is undefined, and the
\* build yields some byte.
castU8(tenths) ==
    IF tenths >= 0 /\ tenths \div 10 <= 255 THEN { tenths \div 10 }
    ELSE IF tenths < 0 /\ tenths > 0 - 10 THEN { 0 }
    ELSE { 0, 251, 255 }

\* What every setter and getter leaves alone.
configFrame ==
    /\ pc' = "idle"
    /\ UNCHANGED << version, clock, start_time, data, invert_iq, timeout, polls, packet >>
    /\ UNCHANGED << bridgeVars, hostVars >>

CalibrateTemperature ==
    /\ pc = "idle"
    /\ op' = "calibrateTemperature"
    /\ \E actual_temp \in Temps, plan \in PlansUpTo(MaxTempFailAt) :
         \E cal_value \in castU8(actual_temp) :
           LET r == calibrateTemperature(Machine(regs, plan, QuietEnv), cal_value)
           IN  /\ cfg_arg' = << actual_temp >>
               /\ regs' = r.m.regs
               /\ bus' = r.m.bus
               /\ result' = r.ret
    /\ cfg_ret' = 0
    /\ configFrame

ReadTemperature ==
    /\ pc = "idle"
    /\ op' = "readTemperature"
    /\ \E plan \in PlansUpTo(MaxTempFailAt) :
         LET r == readTemperature(Machine(regs, plan, QuietEnv))
         IN  /\ regs' = r.m.regs
             /\ bus' = r.m.bus
             /\ cfg_ret' = r.ret
    /\ cfg_arg' = <<>>
    /\ UNCHANGED result
    /\ configFrame

(***************************************************************************)
(* Setters and getters of the radio configuration.  A setter encodes its   *)
(* argument into a register, a getter decodes the register it reads.       *)
(***************************************************************************)
\* std::max(lo, std::min(x, hi))
clamp(x, lo, hi) ==
    LET least == IF x < hi THEN x ELSE hi
    IN  IF lo > least THEN lo ELSE least

\* void RFM95::setTxPower(int level, bool use_pa_boost)
setTxPower(m, level, use_pa_boost) ==
    IF use_pa_boost
    THEN writeRegister(m, REG_PA_CONFIG, BitOr(PA_BOOST, clamp(level, 2, 20) - 2))
    ELSE writeRegister(m, REG_PA_CONFIG, clamp(level, 0, 15))

\* int RFM95::getTxPower()
getTxPower(m) ==
    LET m1 == readRegister(m, REG_PA_CONFIG)
        pa == m1.val
    IN  [ m |-> m1,
          ret |-> IF BitAnd(pa, PA_BOOST) # 0 THEN BitAnd(pa, 15) + 2 ELSE BitAnd(pa, 15) ]

\* void RFM95::setAutoAGC(bool enable)
setAutoAGC(m, enable) ==
    LET m1 == readRegister(m, REG_MODEM_CONFIG_3)
    IN  IF enable
        THEN writeRegister(m1, REG_MODEM_CONFIG_3, BitOr(m1.val, 4))
        ELSE writeRegister(m1, REG_MODEM_CONFIG_3, BitAnd(m1.val, 251))

\* void RFM95::setLNA(int lna_gain, bool lna_boost)
setLNA(m, lna_gain, lna_boost) ==
    LET m1 == readRegister(setAutoAGC(m, lna_gain < 0), REG_LNA)
    IN  IF lna_boost
        THEN writeRegister(m1, REG_LNA, BitOr(m1.val, 3))
        ELSE writeRegister(m1, REG_LNA, BitAnd(m1.val, 252))

\* LNA gains asked for: automatic (negative), and two fixed settings.
Gains == { 0 - 1, 0, 6 }

\* Power levels asked for, in dBm: both ranges and one step outside them.
Levels == (0 - 1)..21

\* A setter call: the arguments are kept, the registers and the bus follow
\* the machine the call leaves; what an earlier getter returned is gone.
setterStep(name, args, m) ==
    /\ op' = name
    /\ cfg_arg' = args
    /\ cfg_ret' = 0
    /\ regs' = m.regs
    /\ bus' = m.bus
    /\ UNCHANGED result
    /\ configFrame

\* A getter call: r is the machine the call leaves and the value returned;
\* cfg_arg still holds the arguments of the setter called last.
getterStep(name, r) ==
    /\ op' = name
    /\ UNCHANGED cfg_arg
    /\ cfg_ret' = r.ret
    /\ regs' = r.m.regs
    /\ bus' = r.m.bus
    /\ UNCHANGED result
    /\ configFrame

SetTxPower ==
    /\ pc = "idle"
    /\ \E level \in Levels, use_pa_boost \in BOOLEAN, plan \in PlansUpTo(MaxSetupFailAt) :
         setterStep("setTxPower", << level, use_pa_boost >>,
                    setTxPower(Machine(regs, plan, QuietEnv), level, use_pa_boost))

GetTxPower ==
    /\ pc = "idle"
    /\ \E plan \in PlansUpTo(MaxSetupFailAt) :
         getterStep("getTxPower", getTxPower(Machine(regs, plan, QuietEnv)))

SetAutoAGC ==
    /\ pc = "idle"
    /\ \E enable \in BOOLEAN, plan \in PlansUpTo(MaxSetupFailAt) :
         setterStep("setAutoAGC", << enable >>,
                    setAutoAGC(Machine(regs, plan, QuietEnv), enable))

SetLNA ==
    /\ pc = "idle"
    /\ \E lna_gain \in Gains, lna_boost \in BOOLEAN, plan \in PlansUpTo(MaxSetupFailAt) :
         setterStep("setLNA", << lna_gain, lna_boost >>,
                    setLNA(Machine(regs, plan, QuietEnv), lna_gain, lna_boost))

\* const float bws[] of setBandwidth and getBandwidth, in hundredths of a
\* kHz (7.8 kHz is 780); the index of the source is the position minus one.
bws == << 780, 1040, 1560, 2080, 3125, 4170, 6250, 12500, 25000, 50000 >>

\* The for loop of setBandwidth from index i on: the first index whose entry
\* is not below the request, 9 when the loop ends without one.
RECURSIVE bwIndex(_, _)
bwIndex(bw_khz, i) ==
    IF i >= 10 THEN 9
    ELSE IF bw_khz <= bws[i + 1] THEN i
    ELSE bwIndex(bw_khz, i + 1)

\* setBandwidth with the index put into the register unshifted.
setBandwidth_unshifted(m, bw_khz) ==
    LET bw_value == bwIndex(bw_khz, 0)
        m1 == readRegister(m, REG_MODEM_CONFIG_1)
        reg1 == BitOr(BitAnd(m1.val, 15), bw_value)
    IN  writeRegister(m1, REG_MODEM_CONFIG_1, reg1)

\* void RFM95::setBandwidth(float bw_khz)
setBandwidth(m, bw_khz) ==
    LET bw_value == bwIndex(bw_khz, 0)
        m1 == readRegister(m, REG_MODEM_CONFIG_1)
        reg1 == BitOr(BitAnd(m1.val, 15), (bw_value * 16) % 256)
    IN  writeRegister(m1, REG_MODEM_CONFIG_1, reg1)

\* float RFM95::getBandwidth()
getBandwidth(m) ==
    LET m1 == readRegister(m, REG_MODEM_CONFIG_1)
        bw_value == BitAnd(m1.val \div 16, 15)
    IN  [ m |-> m1, ret |-> bws[(IF bw_value < 10 THEN bw_value ELSE 9) + 1] ]

\* setCodingRate keeping only bit 0 of the register.
setCodingRate_wideMask(m, denominator) ==
    LET cr == clamp(denominator, 5, 8) - 4
        m1 == readRegister(m, REG_MODEM_CONFIG_1)
        reg1 == BitOr(BitAnd(m1.val, 1), (cr * 2) % 256)
    IN  writeRegister(m1, REG_MODEM_CONFIG_1, reg1)

\* void RFM95::setCodingRate(int denominator)
setCodingRate(m, denominator) ==
    LET cr == clamp(denominator, 5, 8) - 4
        m1 == readRegister(m, REG_MODEM_CONFIG_1)
        reg1 == BitOr(BitAnd(m1.val, 241), (cr * 2) % 256)
    IN  writeRegister(m1, REG_MODEM_CONFIG_1, reg1)

\* int RFM95::getCodingRate()
getCodingRate(m) ==
    LET m1 == readRegister(m, REG_MODEM_CONFIG_1)
        cr == BitAnd(m1.val \div 2, 7)
    IN  [ m |-> m1, ret |-> cr + 4 ]

\* Bandwidths asked for, in hundredths of a kHz: below the table, on an
\* entry, just above one, between two entries, the last entry, above it.
Bandwidths == { 0 - 100, 780, 781, 10000, 12500, 50000, 60000 }

\* Coding-rate denominators asked for: the range and one step outside it.
Denominators == 4..9

SetBandwidth ==
    /\ pc = "idle"
    /\ \E bw_khz \in Bandwidths, plan \in PlansUpTo(MaxSetupFailAt) :
         setterStep("setBandwidth", << bw_khz >>,
                    setBandwidth(Machine(regs, plan, QuietEnv), bw_khz))

GetBandwidth ==
    /\ pc = "idle"
    /\ \E plan \in PlansUpTo(MaxSetupFailAt) :
         getterStep("getBandwidth", getBandwidth(Machine(regs, plan, QuietEnv)))

SetCodingRate ==
    /\ pc = "idle"
    /\ \E denominator \in Denominators, plan \in PlansUpTo(MaxSetupFailAt) :
         setterStep("setCodingRate", << denominator >>,
                    setCodingRate(Machine(regs, plan, QuietEnv), denominator))

GetCodingRate ==
    /\ pc = "idle"
    /\ \E plan \in PlansUpTo(MaxSetupFailAt) :
         getterStep("getCodingRate", getCodingRate(Machine(regs, plan, QuietEnv)))

\* setSpreadingFactor writing the pair of factors 7..12 for every factor.
setSpreadingFactor_onePair(m, sf) ==
    LET m1 == writeRegister(m, REG_DETECTION_OPTIMIZE, 195)
        m2 == writeRegister(m1, REG_DETECTION_THRESHOLD, 10)
        m3 == readRegister(m2, REG_MODEM_CONFIG_2)
        reg2 == BitOr(BitAnd(m3.val, 15), BitAnd(clamp(sf, 6, 12) * 16, 240))
    IN  writeRegister(m3, REG_MODEM_CONFIG_2, reg2)

\* void RFM95::setSpreadingFactor(int sf)
setSpreadingFactor(m, sf) ==
    LET clamped == clamp(sf, 6, 12)
        m1 == IF clamped = 6
              THEN writeRegister(m, REG_DETECTION_OPTIMIZE, 197)
              ELSE writeRegister(m, REG_DETECTION_OPTIMIZE, 195)
        m2 == IF clamped = 6
              THEN writeRegister(m1, REG_DETECTION_THRESHOLD, 12)
              ELSE writeRegister(m1, REG_DETECTION_THRESHOLD, 10)
        m3 == readRegister(m2, REG_MODEM_CONFIG_2)
        reg2 == BitOr(BitAnd(m3.val, 15), BitAnd(clamped * 16, 240))
    IN  writeRegister(m3, REG_MODEM_CONFIG_2, reg2)

\* int RFM95::getSpreadingFactor()
getSpreadingFactor(m) ==
    LET m1 == readRegister(m, REG_MODEM_CONFIG_2)
    IN  [ m |-> m1, ret |-> BitAnd(m1.val \div 16, 15) ]

\* void RFM95::setInvertIQ(bool invert), called on its own.
SetInvertIQ ==
    /\ pc = "idle"
    /\ \E invert \in BOOLEAN, plan \in PlansUpTo(MaxSetupFailAt) :
         setterStep("setInvertIQ", << invert >>,
                    setInvertIQ(Machine(regs, plan, QuietEnv), invert))

\* Spreading factors asked for: the range and one step outside it.
Factors == 5..13

SetSpreadingFactor ==
    /\ pc = "idle"
    /\ \E sf \in Factors, plan \in PlansUpTo(MaxSetupFailAt) :
         setterStep("setSpreadingFactor", << sf >>,
                    setSpreadingFactor(Machine(regs, plan, QuietEnv), sf))

GetSpreadingFactor ==
    /\ pc = "idle"
    /\ \E plan \in PlansUpTo(MaxSetupFailAt) :
         getterStep("getSpreadingFactor",
                    getSpreadingFactor(Machine(regs, plan, QuietEnv)))

\* Frequencies are counted in units of 2^-16 MHz, the spacing of the float
\* values of [128, 256) MHz; a float of [256, 512) MHz is an even and one
\* of [512, 1024) MHz a fourfold number of units.
MHz == 65536
IsFloat(n) ==
    \/ 128 * MHz <= n /\ n < 256 * MHz
    \/ 256 * MHz <= n /\ n < 512 * MHz /\ n % 2 = 0
    \/ 512 * MHz <= n /\ n <= 1024 * MHz /\ n % 4 = 0

\* static_cast<uint32_t>((freq_mhz * 524288.0) / 32.0): the product and
\* the quotient are exact in double, the cast drops the fraction of the
\* 2^-14 MHz steps (four units each); up to 1024 MHz the number of steps is
\* at most 2^24 and inside uint32_t.
frfWord(freq) == freq \div 4

\* setFrequency writing the three bytes in the opposite order.
setFrequency_lsbFirst(m, freq) ==
    LET frf == frfWord(freq)
        m1 == writeRegister(m, REG_FRF_MSB, frf % 256)
        m2 == writeRegister(m1, REG_FRF_MID, (frf \div 256) % 256)
    IN  writeRegister(m2, REG_FRF_LSB, (frf \div 65536) % 256)

\* void RFM95::setFrequency(float freq_mhz)
setFrequency(m, freq) ==
    LET frf == frfWord(freq)
        m1 == writeRegister(m, REG_FRF_MSB, (frf \div 65536) % 256)
        m2 == writeRegister(m1, REG_FRF_MID, (frf \div 256) % 256)
    IN  writeRegister(m2, REG_FRF_LSB, frf % 256)

\* float RFM95::getFrequency(): (frf * 32.0) / 524288.0 is frf steps of four
\* units; a word of 24 bits has a float of its own, so the conversion of
\* the double to float changes nothing.
getFrequency(m) ==
    LET m1 == readRegister(m, REG_FRF_MSB)
        m2 == readRegister(m1, REG_FRF_MID)
        m3 == readRegister(m2, REG_FRF_LSB)
        frf == m1.val * 65536 + m2.val * 256 + m3.val
    IN  [ m |-> m3, ret |-> frf * 4 ]

\* Frequencies asked for: the ends of the range of the radio (137 and 1020
\* MHz), the float next to 868.1 MHz, 433 MHz and a float half a step
\* above it, floats one and three quarters of a step above 137 and 169 MHz,
\* the float just below 256 MHz, and 1024 MHz, whose word has 25 bits.
Frequencies ==
    { n \in { 137 * MHz, 137 * MHz + 1, 169 * MHz + 3, 256 * MHz - 1,
              433 * MHz, 433 * MHz + 2, 56891800, 1020 * MHz, 1024 * MHz } :
        IsFloat(n) }

SetFrequency ==
    /\ pc = "idle"
    /\ \E freq \in Frequencies, plan \in PlansUpTo(MaxSetupFailAt) :
         setterStep("setFrequency", << freq >>,
                    setFrequency(Machine(regs, plan, QuietEnv), freq))

GetFrequency ==
    /\ pc = "idle"
    /\ \E plan \in PlansUpTo(MaxSetupFailAt) :
         getterStep("getFrequency", getFrequency(Machine(regs, plan, QuietEnv)))

\* void RFM95::receiveMode()
receiveMode(m) ==
    writeRegisters(m, << <<REG_FIFO_ADDR_PTR, 0>>, <<REG_IRQ_FLAGS, 255>>,
                         <<REG_LNA, 35>>,
                         <<REG_DETECTION_OPTIMIZE, 195>>, <<REG_DETECTION_THRESHOLD, 10>>,
                         <<REG_OP_MODE, MODE_RX_CONTINUOUS>> >>)

\* void RFM95::setContinuousReceive(); DIO0_RX_DONE is 0x00.
setContinuousReceive(m) ==
    LET m1 == readRegister(standbyMode(m), REG_FIFO_RX_BASE_ADDR)
        m2 == readRegister(writeRegister(m1, REG_FIFO_ADDR_PTR, m1.val), REG_DIO_MAPPING_1)
        m3 == writeRegister(m2, REG_DIO_MAPPING_1, BitOr(BitAnd(m2.val, 63), 0))
        m4 == readRegister(writeRegister(m3, REG_IRQ_FLAGS, 255), REG_OP_MODE)
        m5 == writeRegister(m4, REG_OP_MODE, BitOr(BitAnd(m4.val, 248), MODE_RX_CONTINUOUS))
    IN  readRegister(m5, REG_OP_MODE)

StandbyMode ==
    /\ pc = "idle"
    /\ \E plan \in PlansUpTo(MaxSetupFailAt) :
         setterStep("standbyMode", <<>>, standbyMode(Machine(regs, plan, QuietEnv)))

SleepMode ==
    /\ pc = "idle"
    /\ \E plan \in PlansUpTo(MaxSetupFailAt) :
         setterStep("sleepMode", <<>>, sleepMode(Machine(regs, plan, QuietEnv)))

ReceiveMode ==
    /\ pc = "idle"
    /\ \E plan \in PlansUpTo(MaxSetupFailAt) :
         setterStep("receiveMode", <<>>, receiveMode(Machine(regs, plan, QuietEnv)))

SetContinuousReceive ==
    /\ pc = "idle"
    /\ \E plan \in PlansUpTo(MaxSetupFailAt) :
         setterStep("setContinuousReceive", <<>>,
                    setContinuousReceive(Machine(regs, plan, QuietEnv)))

(***************************************************************************)
(* The bridge session (src/src/CH341SPI.cpp).                              *)
(*                                                                         *)
(* A bulk call is recorded as [ep, bytes, ok]: ep "out" with the command   *)
(* bytes, or ep "in" with the byte received (empty when the call failed).  *)
(* A command that reaches the chip updates its output / direction latches. *)
(***************************************************************************)
BulkOut(bytes, ok) == [ ep |-> "out", bytes |-> bytes, ok |-> ok ]
BulkIn(bytes, ok) == [ ep |-> "in", bytes |-> IF ok THEN bytes ELSE <<>>, ok |-> ok ]

csLowCmd == << CMD_UIO_STREAM, CMD_UIO_STM_OUT + UIO_CS_LOW, CMD_UIO_STM_END >>
csHighCmd == << CMD_UIO_STREAM, CMD_UIO_STM_OUT + UIO_CS_HIGH, CMD_UIO_STM_END >>
configStreamCmd == << CMD_I2C_STREAM, CMD_I2C_STM_SET + 1, CMD_I2C_STM_END >>
enablePinsCmd(enable) ==
    << CMD_UIO_STREAM,
       CMD_UIO_STM_OUT + UIO_CS_HIGH, CMD_UIO_STM_OUT + UIO_CS_HIGH,
       CMD_UIO_STM_OUT + UIO_CS_HIGH,
       CMD_UIO_STM_DIR + (IF enable THEN 63 ELSE 0),
       CMD_UIO_STM_END >>

\* The latches [out, dir] after the chip has run a UIO stream: a byte with
\* top bits 10 loads the output latch, 01 the direction latch, END stops.
RECURSIVE UioRun(_, _)
UioRun(latch, bytes) ==
    IF bytes = <<>> \/ bytes[1] = CMD_UIO_STM_END THEN latch
    ELSE LET b == bytes[1]
             top == b \div 64
         IN  UioRun(CASE top = 2 -> [ latch EXCEPT !.out = b % 64 ]
                      [] top = 1 -> [ latch EXCEPT !.dir = b % 64 ]
                      [] OTHER -> latch,
                    Tail(bytes))

\* The latches after a bulk-out call carrying cmd.
ChipAfter(latch, cmd, ok) ==
    IF ok /\ cmd[1] = CMD_UIO_STREAM THEN UioRun(latch, Tail(cmd)) ELSE latch

Latch == [ out |-> chip_out, dir |-> chip_dir ]

\* uint8_t CH341SPI::swapBits(uint8_t byte)
RECURSIVE swapBitsFrom(_, _)
swapBitsFrom(byte, i) ==
    IF i = 8 THEN 0
    ELSE (IF (byte \div (2 ^ i)) % 2 = 1 THEN 2 ^ (7 - i) ELSE 0) + swapBitsFrom(byte, i + 1)

\* Swaps the two halves of the byte instead of reversing its bits.
swapBits_nibbles(byte) == (byte % 16) * 16 + byte \div 16

swapBits(byte) == swapBitsFrom(byte, 0)

\* Every value of a uint8_t.
Bytes == 0..255

\* The SPI-stream command for one written byte / one byte to read.
spiWriteCmd(byte) == << CMD_SPI_STREAM, IF lsb_first THEN swapBits(byte) ELSE byte >>
spiReadCmd == << CMD_SPI_STREAM, SPI_DUMMY >>

\* Where transfer() goes once the chip-select-low command or one loop
\* iteration is done: the write loop, the read loop, or chip-select high.
xferNext_oneShort(i, phase) ==
    IF phase = "write" /\ i < Len(write_data) THEN "write_cmd"
    ELSE IF phase = "write" THEN (IF read_length > 0 THEN "read_cmd" ELSE "cs_high")
    ELSE IF i + 1 < read_length THEN "read_cmd" ELSE "cs_high"

xferNext(i, phase) ==
    IF phase = "write" /\ i < Len(write_data) THEN "write_cmd"
    ELSE IF phase = "write" THEN (IF read_length > 0 THEN "read_cmd" ELSE "cs_high")
    ELSE IF i < read_length THEN "read_cmd" ELSE "cs_high"

WriteDatas == { <<>>, << 66 >>, << 129, 3 >> }
ReadLengths == 0..MaxRead
ResponseBytes == { 18, 3 }
DeviceIndexes == (0 - 1)..MaxDevices
DeviceCounts == 0..MaxDevices

\* The session after CH341SPI::CH341SPI(device_index, lsb_first): ctxs says
\* whether libusb_init may have succeeded, lsbs which bit orders are built.
InitBridge(ctxs, lsbs) ==
    /\ context \in ctxs
    /\ device = FALSE
    /\ lsb_first \in lsbs
    /\ xop = "none"
    /\ xpc = "idle"
    /\ write_data = <<>>
    /\ read_length = 0
    /\ xi = 0
    /\ xfer_result = <<>>
    /\ open_result = FALSE
    /\ usb = <<>>
    /\ chip_out = 0
    /\ chip_dir = 0

\* `opened' when the session holds no device handle.
NoDevice == 0 - 1

\* The session's members outside transfer() after construction.  is_open is
\* given no value by the constructor and none later: it holds whatever the
\* object's storage held.
InitSession(idxs, storage, counts) ==
    /\ device_index \in idxs
    /\ attached \in counts
    /\ opened = NoDevice
    /\ handles = 0
    /\ is_open \in storage
    /\ active_result = FALSE
    /\ closed_since = FALSE

\* write_data, read_length, xi and xfer_result are the parameters, the loop
\* index and the return value of transfer(); gpio_pin, gpio_level and
\* gpio_result the parameters and the return value of a GPIO call.  They
\* live as long as the call and the caller's look at what it returned: the
\* next call of another function finds them gone.
noTransfer ==
    /\ write_data' = <<>>
    /\ read_length' = 0
    /\ xi' = 0
    /\ xfer_result' = <<>>

noGpioCall ==
    /\ gpio_pin' = 0
    /\ gpio_level' = FALSE
    /\ gpio_result' = FALSE
    /\ UNCHANGED << gpio_direction, gpio_output >>

\* The bulk calls of close(): enablePins(false), whose result is ignored.
closeBulk(ok) == << BulkOut(enablePinsCmd(FALSE), ok) >>

\* ch341_devices[device_index] with found devices in the vector: the element
\* at device_index, or (index negative, read out of bounds) any device.
Selected(found) ==
    IF device_index >= 0 \/ found = 0 THEN { device_index } ELSE 0..(found - 1)

\* Whether the read of ch341_devices[device_index] may crash the process.
Crashes(found) ==
    IF device_index >= 0 \/ found = 0 THEN { FALSE } ELSE BOOLEAN

\* bool CH341SPI::open().  found is the size of ch341_devices; stage
\* names the first step that fails ("none": all succeed).  pos is the
\* position of ch341_devices the handle is opened on: device_index, except
\* that a negative device_index passes the range test of line 103 and reads
\* the vector out of bounds, after which the call may crash or go on with
\* any device.  A failed libusb_open leaves `device' as it was.
Open ==
    /\ xpc = "idle"
    /\ caller = "idle"
    /\ handles < MaxHandles
    /\ xop' = "open"
    /\ closed_since' = FALSE
    /\ \E stage \in { "none", "list", "open", "config", "claim", "stream", "pins" },
          closeOk \in BOOLEAN :
       \E pos \in Selected(attached), crash \in Crashes(attached) :
         LET found == attached
             listed == context /\ stage # "list"
             reaches == listed /\ found > 0 /\ device_index < found
         IN
         /\ IF ~reaches \/ (stage = "open" /\ ~crash)
            THEN /\ open_result' = FALSE
                 /\ usb' = <<>>
                 /\ UNCHANGED << device, chip_out, chip_dir, xpc, opened, handles >>
            ELSE IF crash
            THEN /\ xpc' = "crashed"
                 /\ usb' = <<>>
                 /\ UNCHANGED << open_result, device, chip_out, chip_dir, opened, handles >>
            ELSE IF stage \in { "config", "claim" }
            THEN /\ open_result' = FALSE
                 /\ device' = FALSE
                 /\ opened' = NoDevice
                 /\ usb' = <<>>
                 /\ UNCHANGED << chip_out, chip_dir, xpc, handles >>
            ELSE IF stage = "stream"
            THEN \* configStream() failed: close()
                 LET l == ChipAfter(Latch, enablePinsCmd(FALSE), closeOk)
                 IN  /\ open_result' = FALSE
                     /\ device' = FALSE
                     /\ opened' = NoDevice
                     /\ usb' = << BulkOut(configStreamCmd, FALSE) >> \o closeBulk(closeOk)
                     /\ chip_out' = l.out
                     /\ chip_dir' = l.dir
                     /\ UNCHANGED << xpc, handles >>
            ELSE IF stage = "pins"
            THEN \* enablePins(true) failed: close()
                 LET l == ChipAfter(Latch, enablePinsCmd(FALSE), closeOk)
                 IN  /\ open_result' = FALSE
                     /\ device' = FALSE
                     /\ opened' = NoDevice
                     /\ usb' = << BulkOut(configStreamCmd, TRUE),
                                  BulkOut(enablePinsCmd(TRUE), FALSE) >> \o closeBulk(closeOk)
                     /\ chip_out' = l.out
                     /\ chip_dir' = l.dir
                     /\ UNCHANGED << xpc, handles >>
            ELSE LET l == ChipAfter(Latch, enablePinsCmd(TRUE), TRUE)
                 IN  /\ open_result' = TRUE
                     /\ device' = TRUE
                     /\ opened' = pos
                     /\ handles' = handles + 1
                     /\ usb' = << BulkOut(configStreamCmd, TRUE),
                                  BulkOut(enablePinsCmd(TRUE), TRUE) >>
                     /\ chip_out' = l.out
                     /\ chip_dir' = l.dir
                     /\ UNCHANGED xpc
    /\ UNCHANGED << context, lsb_first >>
    /\ UNCHANGED << device_index, attached, is_open, active_result >>
    /\ UNCHANGED << radioVars, linuxVars, threadVars >>
    /\ noTransfer
    /\ noGpioCall

\* close() without its test of `device'.
closeBody_unguarded ==
    \E ok \in BOOLEAN :
      LET l == ChipAfter(Latch, enablePinsCmd(FALSE), ok)
      IN  /\ usb' = closeBulk(ok)
          /\ chip_out' = l.out
          /\ chip_dir' = l.dir
          /\ device' = FALSE
          /\ opened' = NoDevice
          /\ handles' = handles - 1

\* The body of close(): enablePins(false), release, libusb_close, and
\* device = nullptr, all only when a handle is held.
closeBody ==
    IF device
    THEN \E ok \in BOOLEAN :
           LET l == ChipAfter(Latch, enablePinsCmd(FALSE), ok)
           IN  /\ usb' = closeBulk(ok)
               /\ chip_out' = l.out
               /\ chip_dir' = l.dir
               /\ device' = FALSE
               /\ opened' = NoDevice
               /\ handles' = handles - 1
    ELSE /\ usb' = <<>>
         /\ UNCHANGED << device, chip_out, chip_dir, opened, handles >>

\* void CH341SPI::close()
Close ==
    /\ xpc = "idle"
    /\ caller = "idle"
    /\ xop' = "close"
    /\ closed_since' = TRUE
    /\ closeBody
    /\ UNCHANGED << context, lsb_first, xpc, open_result >>
    /\ UNCHANGED << device_index, attached, is_open, active_result >>
    /\ UNCHANGED << radioVars, linuxVars, threadVars >>
    /\ noTransfer
    /\ noGpioCall

\* bool CH341SPI::isActive() const
IsActive ==
    /\ xpc = "idle"
    /\ caller = "idle"
    /\ xop' = "isActive"
    /\ active_result' = is_open
    /\ usb' = <<>>
    /\ UNCHANGED << context, device, lsb_first, xpc, open_result, chip_out, chip_dir >>
    /\ UNCHANGED << device_index, attached, opened, handles, is_open, closed_since >>
    /\ UNCHANGED << radioVars, linuxVars, threadVars >>
    /\ noTransfer
    /\ noGpioCall

\* uint8_t CH341SPI::swapBits(uint8_t byte), called on its own: the argument
\* is kept in write_data, the value returned in xfer_result.
SwapBits ==
    /\ xpc = "idle"
    /\ caller = "idle"
    /\ xop' = "swapBits"
    /\ \E byte \in Bytes :
         /\ write_data' = << byte >>
         /\ xfer_result' = << swapBits(byte) >>
    /\ read_length' = 0
    /\ xi' = 0
    /\ usb' = <<>>
    /\ UNCHANGED << context, device, lsb_first, xpc, open_result, chip_out, chip_dir >>
    /\ UNCHANGED << radioVars, linuxVars, sessionVars, threadVars >>
    /\ noGpioCall

\* How a return statement of transfer() leaves the session.
xferReturn(res) ==
    /\ xfer_result' = res
    /\ xpc' = "idle"

\* transfer(write_data, read_length): entry, and the chip-select-low command.
TransferBegin ==
    /\ xpc = "idle"
    /\ caller = "idle"
    /\ xop' = "transfer"
    /\ xi' = 0
    /\ \E wd \in WriteDatas, rl \in ReadLengths, ok \in BOOLEAN :
         /\ write_data' = wd
         /\ read_length' = rl
         /\ IF ~device
            THEN /\ xferReturn(<<>>)
                 /\ usb' = <<>>
                 /\ UNCHANGED << chip_out, chip_dir >>
            ELSE LET l == ChipAfter(Latch, csLowCmd, ok)
                 IN  /\ usb' = << BulkOut(csLowCmd, ok) >>
                     /\ chip_out' = l.out
                     /\ chip_dir' = l.dir
                     /\ IF ok
                        THEN /\ xfer_result' = <<>>
                             /\ xpc' = IF Len(wd) > 0 THEN "write_cmd"
                                       ELSE IF rl > 0 THEN "read_cmd" ELSE "cs_high"
                        ELSE xferReturn(<<>>)
    /\ UNCHANGED << context, device, lsb_first, open_result >>
    /\ UNCHANGED << radioVars, linuxVars, sessionVars, threadVars >>
    /\ noGpioCall

\* Write loop: the SPI-stream command carrying write_data[i].
TransferWriteCmd ==
    /\ xpc = "write_cmd"
    /\ \E ok \in BOOLEAN :
         /\ usb' = Append(usb, BulkOut(spiWriteCmd(write_data[xi + 1]), ok))
         /\ IF ok THEN xpc' = "write_resp" /\ UNCHANGED xfer_result
                  ELSE xferReturn(xfer_result)
    /\ UNCHANGED << context, device, lsb_first, xop, write_data, read_length, xi,
                    open_result, chip_out, chip_dir >>
    /\ UNCHANGED << radioVars, hostVars >>

\* Write loop: the response byte of the command is read and dropped.
TransferWriteResp ==
    /\ xpc = "write_resp"
    /\ \E ok \in BOOLEAN, response_byte \in ResponseBytes :
         /\ usb' = Append(usb, BulkIn(<< response_byte >>, ok))
         /\ IF ok THEN /\ xi' = xi + 1
                       /\ xpc' = xferNext(xi + 1, "write")
                       /\ UNCHANGED xfer_result
                  ELSE xferReturn(xfer_result) /\ UNCHANGED xi
    /\ UNCHANGED << context, device, lsb_first, xop, write_data, read_length,
                    open_result, chip_out, chip_dir >>
    /\ UNCHANGED << radioVars, hostVars >>

\* Read loop: the SPI-stream command carrying the dummy byte.  The loop index
\* restarts at 0: it is Len(xfer_result).
TransferReadCmd ==
    /\ xpc = "read_cmd"
    /\ \E ok \in BOOLEAN :
         /\ usb' = Append(usb, BulkOut(spiReadCmd, ok))
         /\ IF ok THEN xpc' = "read_resp" /\ UNCHANGED xfer_result
                  ELSE xferReturn(xfer_result)
    /\ UNCHANGED << context, device, lsb_first, xop, write_data, read_length, xi,
                    open_result, chip_out, chip_dir >>
    /\ UNCHANGED << radioVars, hostVars >>

\* Read loop: the response byte is read and pushed back onto the result.
TransferReadResp ==
    /\ xpc = "read_resp"
    /\ \E ok \in BOOLEAN, response_byte \in ResponseBytes :
         /\ usb' = Append(usb, BulkIn(<< response_byte >>, ok))
         /\ IF ok
            THEN /\ xfer_result' = Append(xfer_result,
                        IF lsb_first THEN swapBits(response_byte) ELSE response_byte)
                 /\ xpc' = xferNext(Len(xfer_result) + 1, "read")
            ELSE xferReturn(xfer_result)
    /\ UNCHANGED << context, device, lsb_first, xop, write_data, read_length, xi,
                    open_result, chip_out, chip_dir >>
    /\ UNCHANGED << radioVars, hostVars >>

\* The chip-select-high command; its failure is only logged.
TransferEnd ==
    /\ xpc = "cs_high"
    /\ \E ok \in BOOLEAN :
         LET l == ChipAfter(Latch, csHighCmd, ok)
         IN  /\ usb' = Append(usb, BulkOut(csHighCmd, ok))
             /\ chip_out' = l.out
             /\ chip_dir' = l.dir
    /\ xferReturn(xfer_result)
    /\ UNCHANGED << context, device, lsb_first, xop, write_data, read_length, xi,
                    open_result >>
    /\ UNCHANGED << radioVars, hostVars >>

(***************************************************************************)
(* GPIO of the bridge session.  The constructor gives _gpio_direction and  *)
(* _gpio_output no value: they start as whatever the storage held.         *)
(***************************************************************************)
Pins == { PIN_D0, PIN_D5 }
ByteBits == { 1, 2, 4, 8, 16, 32, 64, 128 }
GpioStorage == { 0, 21, 255 }
PinStates == { 0, 64, 191, 255 }

BitClear(a, mask) == a - BitAnd(a, mask)

InitGpio(storage) ==
    /\ gpio_direction \in storage
    /\ gpio_output \in storage
    /\ gpio_pin = 0
    /\ gpio_level = FALSE
    /\ gpio_result = FALSE

gpioFrame ==
    /\ UNCHANGED << context, device, lsb_first, xpc, open_result >>
    /\ UNCHANGED << radioVars, linuxVars, sessionVars, threadVars >>
    /\ noTransfer

\* digitalWrite storing the pin's mask instead of or-ing / masking it in.
writeOutput_assigned(pin, value) == IF value THEN pin ELSE 0

\* _gpio_output after digitalWrite(pin, value): |= pin, or &= ~pin.
writeOutput(pin, value) ==
    IF value THEN BitOr(gpio_output, pin) ELSE BitClear(gpio_output, pin)

\* bool CH341SPI::digitalWrite(uint8_t pin, bool value)
DigitalWrite ==
    /\ xpc = "idle"
    /\ caller = "idle"
    /\ xop' = "digitalWrite"
    /\ \E p \in Pins, v \in BOOLEAN, ok \in BOOLEAN :
         /\ gpio_pin' = p
         /\ gpio_level' = v
         /\ IF ~device
            THEN /\ gpio_result' = FALSE
                 /\ usb' = <<>>
                 /\ UNCHANGED << gpio_direction, gpio_output, chip_out, chip_dir >>
            ELSE LET dir == BitOr(gpio_direction, p)
                     out == writeOutput(p, v)
                     cmd == << CMD_UIO_STREAM, BitOr(CMD_UIO_STM_OUT, out),
                               BitOr(CMD_UIO_STM_DIR, dir), CMD_UIO_STM_END >>
                     l == ChipAfter(Latch, cmd, ok)
                 IN  /\ gpio_direction' = dir
                     /\ gpio_output' = out
                     /\ usb' = << BulkOut(cmd, ok) >>
                     /\ chip_out' = l.out
                     /\ chip_dir' = l.dir
                     /\ gpio_result' = ok
    /\ gpioFrame

\* The command that asks the chip for the state of its pins.
readPinsCmd == << BitOr(CMD_UIO_STREAM, 128), CMD_UIO_STM_END >>

\* bool CH341SPI::digitalRead(uint8_t pin).  stage names the bulk call that
\* fails ("none": all succeed); gpio_value is the byte received.
DigitalRead ==
    /\ xpc = "idle"
    /\ caller = "idle"
    /\ xop' = "digitalRead"
    /\ \E p \in Pins, stage \in { "none", "dir", "cmd", "resp" }, gpio_value \in PinStates :
         /\ gpio_pin' = p
         /\ gpio_level' = FALSE
         /\ UNCHANGED gpio_output
         /\ IF ~device
            THEN /\ gpio_result' = FALSE
                 /\ usb' = <<>>
                 /\ UNCHANGED << gpio_direction, chip_out, chip_dir >>
            ELSE LET dir == BitClear(gpio_direction, p)
                     dir_cmd == << CMD_UIO_STREAM, BitOr(CMD_UIO_STM_DIR, dir),
                                   CMD_UIO_STM_END >>
                     l == ChipAfter(Latch, dir_cmd, stage # "dir")
                 IN  /\ gpio_direction' = dir
                     /\ chip_out' = l.out
                     /\ chip_dir' = l.dir
                     /\ usb' = CASE stage = "dir" -> << BulkOut(dir_cmd, FALSE) >>
                                 [] stage = "cmd" -> << BulkOut(dir_cmd, TRUE),
                                                        BulkOut(readPinsCmd, FALSE) >>
                                 [] OTHER -> << BulkOut(dir_cmd, TRUE),
                                                BulkOut(readPinsCmd, TRUE),
                                                BulkIn(<< gpio_value >>, stage = "none") >>
                     /\ gpio_result' = (stage = "none" /\ BitAnd(gpio_value, p) # 0)
    /\ gpioFrame

\* bool CH341SPI::pinMode(uint8_t pin, uint8_t mode); output is mode == OUTPUT.
PinMode ==
    /\ xpc = "idle"
    /\ caller = "idle"
    /\ xop' = "pinMode"
    /\ \E p \in Pins, output \in BOOLEAN, ok \in BOOLEAN :
         /\ gpio_pin' = p
         /\ gpio_level' = output
         /\ UNCHANGED gpio_output
         /\ IF ~device
            THEN /\ gpio_result' = FALSE
                 /\ usb' = <<>>
                 /\ UNCHANGED << gpio_direction, chip_out, chip_dir >>
            ELSE LET dir == IF output THEN BitOr(gpio_direction, p)
                            ELSE BitClear(gpio_direction, p)
                     cmd == << CMD_UIO_STREAM, BitOr(CMD_UIO_STM_DIR, dir),
                               CMD_UIO_STM_END >>
                     l == ChipAfter(Latch, cmd, ok)
                 IN  /\ gpio_direction' = dir
                     /\ usb' = << BulkOut(cmd, ok) >>
                     /\ chip_out' = l.out
                     /\ chip_dir' = l.dir
                     /\ gpio_result' = ok
    /\ gpioFrame

(***************************************************************************)
(* Interrupt monitoring.  Every session runs interruptMonitoringThread on  *)
(* a thread of its own; the threads of all sessions share the function's   *)
(* static lastState.  Session 1 is the bridge session modelled above;      *)
(* session 2 is a second CH341SPI object of the process, which stays open. *)
(*                                                                         *)
(* threadRunning is a plain bool written by the caller's thread and read   *)
(* by the monitoring thread without synchronisation: the monitoring thread *)
(* reads seenRunning, which takes the written value at some later moment   *)
(* (StoreVisible).  Thread creation and join synchronise.                  *)
(*                                                                         *)
(* mon_pc: "none" (no thread), "test" (the while condition), "check"       *)
(* (if (device)), "write", "read" (the two bulk calls), "sleep", "exited"  *)
(* (the function has returned, the thread is not yet joined), "crashed".   *)
(*                                                                         *)
(* The thread tests `device' and then passes it to two bulk calls.  When   *)
(* close() has released the handle in between, the bulk call works on a    *)
(* freed libusb handle: it may fail, seem to succeed, or crash the process *)
(* (caller = "crashed": no call is made or returns any more).              *)
(***************************************************************************)
AllSessions == 1..MaxSessions

Handle(s) == IF s = 1 THEN device ELSE TRUE

InitThread(ss, callbacks) ==
    /\ sessions = ss
    /\ interruptCallback \in [ AllSessions -> callbacks ]
    /\ interruptEnabled = [ s \in AllSessions |-> FALSE ]
    /\ threadRunning = [ s \in AllSessions |-> FALSE ]
    /\ seenRunning = [ s \in AllSessions |-> FALSE ]
    /\ mon_pc = [ s \in AllSessions |-> "none" ]
    /\ caller = "idle"
    /\ irq_result = FALSE
    /\ lastState = FALSE
    /\ polled = [ s \in AllSessions |-> <<>> ]
    /\ fired = [ s \in AllSessions |-> FALSE ]

\* What a call on session s leaves of session 1's call record.
callOn(s, name) ==
    /\ xop' = IF s = 1 THEN name ELSE xop
    /\ usb' = IF s = 1 THEN <<>> ELSE usb
    /\ UNCHANGED << context, device, lsb_first, xpc, write_data, read_length, xi,
                    xfer_result, open_result, chip_out, chip_dir >>
    /\ UNCHANGED << radioVars, linuxVars, sessionVars, gpioVars >>

\* enableInterrupt(true) starting a thread whatever interruptEnabled says.
EnableInterruptOn_unguarded ==
    /\ xpc = "idle"
    /\ caller = "idle"
    /\ \E s \in sessions :
         /\ callOn(s, "enableInterrupt")
         /\ interruptEnabled' = [ interruptEnabled EXCEPT ![s] = TRUE ]
         /\ threadRunning' = [ threadRunning EXCEPT ![s] = TRUE ]
         /\ seenRunning' = [ seenRunning EXCEPT ![s] = TRUE ]
         /\ mon_pc' = [ mon_pc EXCEPT ![s] = "test" ]
         /\ irq_result' = TRUE
    /\ UNCHANGED << sessions, interruptCallback, caller, lastState, polled, fired >>

\* enableInterrupt(true)
EnableInterruptOn ==
    /\ xpc = "idle"
    /\ caller = "idle"
    /\ \E s \in sessions :
         /\ callOn(s, "enableInterrupt")
         /\ IF ~interruptEnabled[s]
            THEN /\ interruptEnabled' = [ interruptEnabled EXCEPT ![s] = TRUE ]
                 /\ threadRunning' = [ threadRunning EXCEPT ![s] = TRUE ]
                 /\ seenRunning' = [ seenRunning EXCEPT ![s] = TRUE ]
                 /\ mon_pc' = [ mon_pc EXCEPT ![s] = "test" ]
                 /\ irq_result' = TRUE
            ELSE /\ irq_result' = FALSE
                 /\ UNCHANGED << interruptEnabled, threadRunning, seenRunning, mon_pc >>
    /\ UNCHANGED << sessions, interruptCallback, caller, lastState, polled, fired >>

\* enableInterrupt(false), up to interruptThread.join()
EnableInterruptOff ==
    /\ xpc = "idle"
    /\ caller = "idle"
    /\ \E s \in sessions :
         /\ callOn(s, "disableInterrupt")
         /\ IF interruptEnabled[s]
            THEN /\ interruptEnabled' = [ interruptEnabled EXCEPT ![s] = FALSE ]
                 /\ threadRunning' = [ threadRunning EXCEPT ![s] = FALSE ]
                 /\ caller' = "disable"
                 /\ UNCHANGED irq_result
            ELSE /\ irq_result' = FALSE
                 /\ UNCHANGED << interruptEnabled, threadRunning, caller >>
    /\ UNCHANGED << sessions, interruptCallback, seenRunning, mon_pc, lastState,
                    polled, fired >>

\* The session whose thread the caller's thread is joining.
JoinTarget == CHOOSE s \in AllSessions : mon_pc[s] # "none" /\ ~threadRunning[s]

\* enableInterrupt(false): join() returns, and so does the call
DisableJoin ==
    /\ caller = "disable"
    /\ mon_pc[JoinTarget] = "exited"
    /\ mon_pc' = [ mon_pc EXCEPT ![JoinTarget] = "none" ]
    /\ caller' = "idle"
    /\ irq_result' = TRUE
    /\ UNCHANGED << sessions, interruptCallback, interruptEnabled, threadRunning,
                    seenRunning, lastState, polled, fired >>
    /\ UNCHANGED << radioVars, linuxVars, bridgeVars, sessionVars, gpioVars >>

\* ~CH341SPI() going on to close() without stopping and joining the thread.
DestroyBegin_noJoin ==
    /\ xpc = "idle"
    /\ caller = "idle"
    /\ xop' = "destroy"
    /\ usb' = <<>>
    /\ caller' = "release"
    /\ UNCHANGED << sessions, interruptCallback, interruptEnabled, threadRunning,
                    seenRunning, mon_pc, irq_result, lastState, polled, fired >>
    /\ UNCHANGED << context, device, lsb_first, xpc, write_data, read_length, xi,
                    xfer_result, open_result, chip_out, chip_dir >>
    /\ UNCHANGED << radioVars, linuxVars, sessionVars, gpioVars >>

\* ~CH341SPI() of session 1, up to interruptThread.join(): the thread is
\* stopped and joined only if (threadRunning).
DestroyBegin ==
    /\ xpc = "idle"
    /\ caller = "idle"
    /\ xop' = "destroy"
    /\ usb' = <<>>
    /\ IF threadRunning[1]
       THEN /\ threadRunning' = [ threadRunning EXCEPT ![1] = FALSE ]
            /\ caller' = "destroy"
       ELSE /\ caller' = "release"
            /\ UNCHANGED threadRunning
    /\ UNCHANGED << sessions, interruptCallback, interruptEnabled, seenRunning,
                    mon_pc, irq_result, lastState, polled, fired >>
    /\ UNCHANGED << context, device, lsb_first, xpc, write_data, read_length, xi,
                    xfer_result, open_result, chip_out, chip_dir >>
    /\ UNCHANGED << radioVars, linuxVars, sessionVars, gpioVars >>

\* ~CH341SPI(): interruptThread.join() returns
DestroyJoin ==
    /\ caller = "destroy"
    /\ mon_pc[1] = "exited"
    /\ mon_pc' = [ mon_pc EXCEPT ![1] = "none" ]
    /\ caller' = "release"
    /\ UNCHANGED << sessions, interruptCallback, interruptEnabled, threadRunning,
                    seenRunning, irq_result, lastState, polled, fired >>
    /\ UNCHANGED << radioVars, linuxVars, bridgeVars, sessionVars, gpioVars >>

\* ~CH341SPI(): close(), libusb_exit(context).  No call on session 1 follows.
DestroyEnd ==
    /\ caller = "release"
    /\ caller' = "idle"
    /\ xop' = "destroyed"
    /\ xpc' = "destroyed"
    /\ closeBody
    /\ context' = FALSE
    /\ UNCHANGED << lsb_first, write_data, read_length, xi, xfer_result, open_result >>
    /\ UNCHANGED << device_index, attached, is_open, active_result, closed_since >>
    /\ UNCHANGED << sessions, interruptCallback, interruptEnabled, threadRunning,
                    seenRunning, mon_pc, irq_result, lastState, polled, fired >>
    /\ UNCHANGED << radioVars, linuxVars, gpioVars >>

monitorFrame ==
    /\ UNCHANGED << sessions, interruptCallback, interruptEnabled, threadRunning,
                    irq_result >>
    /\ UNCHANGED << radioVars, linuxVars, bridgeVars, sessionVars, gpioVars >>

\* The caller's write of threadRunning reaches the monitoring thread.
StoreVisible ==
    /\ \E s \in sessions :
         /\ seenRunning[s] # threadRunning[s]
         /\ seenRunning' = [ seenRunning EXCEPT ![s] = threadRunning[s] ]
    /\ UNCHANGED << mon_pc, lastState, polled, fired, caller >>
    /\ monitorFrame

\* while (threadRunning)
MonitorTest ==
    /\ \E s \in sessions :
         /\ mon_pc[s] = "test"
         /\ mon_pc' = [ mon_pc EXCEPT ![s] = IF seenRunning[s] THEN "check" ELSE "exited" ]
    /\ UNCHANGED << seenRunning, lastState, polled, fired, caller >>
    /\ monitorFrame

\* if (device)
MonitorCheck ==
    /\ \E s \in sessions :
         /\ mon_pc[s] = "check"
         /\ mon_pc' = [ mon_pc EXCEPT ![s] = IF Handle(s) THEN "write" ELSE "sleep" ]
    /\ UNCHANGED << seenRunning, lastState, polled, fired, caller >>
    /\ monitorFrame

\* A bulk call of the thread of session s crashes the process; only a call
\* on a released handle can.
monitorCrash(s) ==
    /\ ~Handle(s)
    /\ mon_pc' = [ mon_pc EXCEPT ![s] = "crashed" ]
    /\ caller' = "crashed"
    /\ UNCHANGED << seenRunning, lastState, polled, fired >>
    /\ monitorFrame

\* The bulk write of the read-pins command; its result is not looked at.
MonitorWrite ==
    \E s \in sessions :
      /\ mon_pc[s] = "write"
      /\ \/ /\ mon_pc' = [ mon_pc EXCEPT ![s] = "read" ]
            /\ UNCHANGED << seenRunning, lastState, polled, fired, caller >>
            /\ monitorFrame
         \/ monitorCrash(s)

\* The last two entries of a sequence.
LastTwo(q) == IF Len(q) <= 2 THEN q ELSE SubSeq(q, Len(q) - 1, Len(q))

\* The poll invoking the callback on every low reading, edge or not.
pollStep_levelTriggered(s, ok, pinState) ==
    LET interruptTriggered == BitAnd(pinState, INT_MASK) = 0
    IN  /\ mon_pc[s] = "read"
        /\ mon_pc' = [ mon_pc EXCEPT ![s] = "sleep" ]
        /\ IF ok
           THEN /\ fired' = [ fired EXCEPT
                                ![s] = interruptTriggered /\ interruptCallback[s] ]
                /\ lastState' = interruptTriggered
                /\ polled' = [ polled EXCEPT
                                 ![s] = LastTwo(Append(polled[s],
                                          IF interruptTriggered THEN "low" ELSE "high")) ]
           ELSE /\ fired' = [ fired EXCEPT ![s] = FALSE ]
                /\ UNCHANGED << lastState, polled >>
        /\ UNCHANGED << seenRunning, caller >>
        /\ monitorFrame

\* The bulk read of pinState by the thread of session s; when it succeeds,
\* the edge detection on the static lastState and the callback.
pollStep(s, ok, pinState) ==
    LET interruptTriggered == BitAnd(pinState, INT_MASK) = 0
    IN  /\ mon_pc[s] = "read"
        /\ mon_pc' = [ mon_pc EXCEPT ![s] = "sleep" ]
        /\ IF ok
           THEN /\ fired' = [ fired EXCEPT
                                ![s] = interruptTriggered /\ ~lastState
                                         /\ interruptCallback[s] ]
                /\ lastState' = interruptTriggered
                /\ polled' = [ polled EXCEPT
                                 ![s] = LastTwo(Append(polled[s],
                                          IF interruptTriggered THEN "low" ELSE "high")) ]
           ELSE /\ fired' = [ fired EXCEPT ![s] = FALSE ]
                /\ UNCHANGED << lastState, polled >>
        /\ UNCHANGED << seenRunning, caller >>
        /\ monitorFrame

MonitorRead ==
    \E s \in sessions :
      \/ \E ok \in BOOLEAN, pinState \in PinStates : pollStep(s, ok, pinState)
      \/ mon_pc[s] = "read" /\ monitorCrash(s)

\* sleep_for(10 ms)
MonitorSleep ==
    /\ \E s \in sessions :
         /\ mon_pc[s] = "sleep"
         /\ mon_pc' = [ mon_pc EXCEPT ![s] = "test" ]
    /\ UNCHANGED << seenRunning, lastState, polled, fired, caller >>
    /\ monitorFrame

(***************************************************************************)
(* The Linux SPI session (src/src/LinuxSPI.cpp): the other implementation  *)
(* of SPIInterface.  One transfer is one full-duplex SPI_IOC_MESSAGE       *)
(* ioctl: every byte clocked out brings one byte in.                       *)
(***************************************************************************)
\* LinuxSPI::LinuxSPI: fd(-1)
InitLinux ==
    /\ fd = FALSE
    /\ lx_write_data = <<>>
    /\ lx_read_length = 0
    /\ rx_buffer = <<>>
    /\ lx_result = <<>>

linuxFrame == UNCHANGED << radioVars, bridgeVars, sessionVars, gpioVars, threadVars >>

\* bool LinuxSPI::open(): the device is opened and configured, or fd is -1.
LinuxOpen ==
    /\ xpc = "idle"
    /\ caller = "idle"
    /\ \E ok \in BOOLEAN : fd' = ok
    /\ lx_write_data' = <<>>
    /\ lx_read_length' = 0
    /\ rx_buffer' = <<>>
    /\ lx_result' = <<>>
    /\ linuxFrame

\* std::max
Max(a, b) == IF a < b THEN b ELSE a

\* What the device may put on the bus while n bytes are clocked.
Responses(n) == [ 1..n -> ResponseBytes ]

\* LinuxSPI::transfer on a session with descriptor state open: ioctl_ok
\* says whether the ioctl succeeded, miso is what it received.  rx is the
\* receive buffer the ioctl filled, ret the vector returned.
linuxTransfer(open, wd, rl, ioctl_ok, miso) ==
    LET total_length == Max(Len(wd), rl)
    IN  IF ~open THEN [ rx |-> <<>>, ret |-> <<>> ]
        ELSE IF total_length = 0 THEN [ rx |-> <<>>, ret |-> <<>> ]
        ELSE IF ~ioctl_ok THEN [ rx |-> <<>>, ret |-> <<>> ]
        ELSE [ rx |-> miso, ret |-> miso ]

\* std::vector<uint8_t> LinuxSPI::transfer(write_data, read_length)
LinuxTransfer ==
    /\ xpc = "idle"
    /\ caller = "idle"
    /\ \E wd \in WriteDatas, rl \in ReadLengths, ok \in BOOLEAN :
         \E miso \in Responses(Max(Len(wd), rl)) :
            LET r == linuxTransfer(fd, wd, rl, ok, miso)
            IN  /\ lx_write_data' = wd
                /\ lx_read_length' = rl
                /\ rx_buffer' = r.rx
                /\ lx_result' = r.ret
    /\ UNCHANGED fd
    /\ linuxFrame

(***************************************************************************)
(* Specifications: one call of begin, of send, of receive on the radio     *)
(* driver; any sequence of open, close and transfer on a bridge session.   *)
(***************************************************************************)
\* The bridge session behind the radio driver: device 0, no interrupt use.
InitHost ==
    InitSession({0}, {FALSE}, {1}) /\ InitGpio({0}) /\ InitThread({1}, {TRUE}) /\ InitLinux

InitBegin == InitRadio(Versions, { FreshRegs, UsedRegs }) /\ InitBridge({TRUE}, {FALSE}) /\ InitHost
NextBegin == Begin
SpecBegin == InitBegin /\ [][NextBegin]_vars

InitSend == InitRadio({EXPECTED_VERSION}, { FreshRegs, UsedRegs }) /\ InitBridge({TRUE}, {FALSE}) /\ InitHost
NextSend == SendCall \/ SendPoll
SpecSend == InitSend /\ [][NextSend]_vars

InitReceive == InitRadio({EXPECTED_VERSION}, { UsedRegs }) /\ InitBridge({TRUE}, {FALSE}) /\ InitHost
NextReceive == ReceiveCall \/ ReceivePoll
SpecReceive == InitReceive /\ [][NextReceive]_vars

InitTransfer ==
    /\ InitRadio({EXPECTED_VERSION}, { FreshRegs })
    /\ InitBridge(BOOLEAN, BOOLEAN)
    /\ InitSession({0}, {FALSE}, {1})
    /\ InitGpio({0})
    /\ InitThread({1}, {TRUE})
    /\ InitLinux
NextTransfer ==
    \/ Open
    \/ Close
    \/ TransferBegin
    \/ TransferWriteCmd
    \/ TransferWriteResp
    \/ TransferReadCmd
    \/ TransferReadResp
    \/ TransferEnd
SpecTransfer == InitTransfer /\ [][NextTransfer]_vars

\* Transfers in either bit order, and the bit swap applied to every byte.
NextBitOrder ==
    \/ Open
    \/ SwapBits
    \/ TransferBegin
    \/ TransferWriteCmd
    \/ TransferWriteResp
    \/ TransferReadCmd
    \/ TransferReadResp
    \/ TransferEnd
SpecBitOrder == InitTransfer /\ [][NextBitOrder]_vars

\* Any sequence of open, close and isActive on a session built with any
\* device index.
InitOpen ==
    /\ InitRadio({EXPECTED_VERSION}, { FreshRegs })
    /\ InitBridge(BOOLEAN, {FALSE})
    /\ InitSession(DeviceIndexes, BOOLEAN, DeviceCounts)
    /\ InitGpio({0})
    /\ InitThread({1}, {TRUE})
    /\ InitLinux
NextOpen ==
    \/ Open
    \/ Close
    \/ IsActive
SpecOpen == InitOpen /\ [][NextOpen]_vars

\* Any sequence of GPIO calls on a session that is opened at some moment;
\* the cached GPIO bytes start as whatever the storage held.
InitGpioCalls ==
    /\ InitRadio({EXPECTED_VERSION}, { FreshRegs })
    /\ InitBridge({TRUE}, {FALSE})
    /\ InitSession({0}, {FALSE}, {1})
    /\ InitGpio(GpioStorage)
    /\ InitThread({1}, {TRUE})
    /\ InitLinux
NextGpioCalls ==
    \/ Open
    \/ DigitalWrite
    \/ DigitalRead
    \/ PinMode
SpecGpioCalls == InitGpioCalls /\ [][NextGpioCalls]_vars

\* Any sequence of open, close and GPIO calls on a session, and of transfers
\* up to their first bulk call (SpecTransfer follows them to their return).
InitClosed ==
    /\ InitRadio({EXPECTED_VERSION}, { FreshRegs })
    /\ InitBridge({TRUE}, {FALSE})
    /\ InitSession({0}, {FALSE}, {1})
    /\ InitGpio({0})
    /\ InitThread({1}, {TRUE})
    /\ InitLinux
NextClosed ==
    \/ Open
    \/ Close
    \/ TransferBegin
    \/ DigitalWrite
    \/ DigitalRead
    \/ PinMode
SpecClosed == InitClosed /\ [][NextClosed]_vars

\* One session, its caller's thread and its monitoring thread: open, close,
\* enableInterrupt(true / false) and destruction.
InitLifecycle ==
    /\ InitRadio({EXPECTED_VERSION}, { FreshRegs })
    /\ InitBridge({TRUE}, {FALSE})
    /\ InitSession({0}, {FALSE}, {1})
    /\ InitGpio({0})
    /\ InitThread({1}, BOOLEAN)
    /\ InitLinux
NextLifecycle ==
    \/ Open
    \/ Close
    \/ EnableInterruptOn
    \/ EnableInterruptOff
    \/ DisableJoin
    \/ DestroyBegin
    \/ DestroyJoin
    \/ DestroyEnd
    \/ StoreVisible
    \/ MonitorTest
    \/ MonitorCheck
    \/ MonitorWrite
    \/ MonitorRead
    \/ MonitorSleep
SpecLifecycle == InitLifecycle /\ [][NextLifecycle]_vars

\* A session that open() has opened and that only its destructor closes:
\* interrupts are switched on and off, and the session is destroyed.
InitJoin ==
    /\ InitRadio({EXPECTED_VERSION}, { FreshRegs })
    /\ context = TRUE
    /\ device = TRUE
    /\ lsb_first = FALSE
    /\ xop = "open"
    /\ xpc = "idle"
    /\ write_data = <<>>
    /\ read_length = 0
    /\ xi = 0
    /\ xfer_result = <<>>
    /\ open_result = TRUE
    /\ usb = << BulkOut(configStreamCmd, TRUE), BulkOut(enablePinsCmd(TRUE), TRUE) >>
    /\ chip_out = UIO_CS_HIGH
    /\ chip_dir = 63
    /\ device_index = 0
    /\ attached = 1
    /\ opened = 0
    /\ handles = 1
    /\ is_open \in BOOLEAN
    /\ active_result = FALSE
    /\ closed_since = FALSE
    /\ InitGpio({0})
    /\ InitThread({1}, BOOLEAN)
    /\ InitLinux
NextJoin ==
    \/ EnableInterruptOn
    \/ EnableInterruptOff
    \/ DisableJoin
    \/ DestroyBegin
    \/ DestroyJoin
    \/ DestroyEnd
    \/ StoreVisible
    \/ MonitorTest
    \/ MonitorCheck
    \/ MonitorWrite
    \/ MonitorRead
    \/ MonitorSleep
SpecJoin == InitJoin /\ [][NextJoin]_vars

\* The same with fair scheduling: a thread that can take a step takes it
\* (the bulk calls have a timeout, the sleep ends), a write of the flag
\* becomes visible to the other thread, and a join that can return returns.
FairJoin ==
    /\ SpecJoin
    /\ WF_vars(StoreVisible)
    /\ WF_vars(MonitorTest)
    /\ WF_vars(MonitorCheck)
    /\ WF_vars(MonitorWrite)
    /\ WF_vars(MonitorRead)
    /\ WF_vars(MonitorSleep)
    /\ WF_vars(DisableJoin)
    /\ WF_vars(DestroyJoin)
    /\ WF_vars(DestroyEnd)

\* One session whose caller's thread runs transfers while its monitoring
\* thread polls.
InitInterleave ==
    /\ InitRadio({EXPECTED_VERSION}, { FreshRegs })
    /\ InitBridge({TRUE}, {FALSE})
    /\ InitSession({0}, {FALSE}, {1})
    /\ InitGpio({0})
    /\ InitThread({1}, {TRUE})
    /\ InitLinux
NextInterleave ==
    \/ Open
    \/ EnableInterruptOn
    \/ TransferBegin
    \/ TransferWriteCmd
    \/ TransferWriteResp
    \/ TransferReadCmd
    \/ TransferReadResp
    \/ TransferEnd
    \/ MonitorTest
    \/ MonitorCheck
    \/ MonitorWrite
    \/ MonitorRead
    \/ MonitorSleep
SpecInterleave == InitInterleave /\ [][NextInterleave]_vars

\* Monitoring threads polling, stopped and started again: of one session,
\* and of two sessions of the same process.
NextEdges ==
    \/ Open
    \/ EnableInterruptOn
    \/ EnableInterruptOff
    \/ DisableJoin
    \/ StoreVisible
    \/ MonitorTest
    \/ MonitorCheck
    \/ MonitorWrite
    \/ MonitorRead
    \/ MonitorSleep
InitOneSession ==
    /\ InitRadio({EXPECTED_VERSION}, { FreshRegs })
    /\ InitBridge({TRUE}, {FALSE})
    /\ InitSession({0}, {FALSE}, {1})
    /\ InitGpio({0})
    /\ InitThread({1}, {TRUE})
    /\ InitLinux
SpecOneSession == InitOneSession /\ [][NextEdges]_vars
InitTwoSessions ==
    /\ InitRadio({EXPECTED_VERSION}, { FreshRegs })
    /\ InitBridge({TRUE}, {FALSE})
    /\ InitSession({0}, {FALSE}, {1})
    /\ InitGpio({0})
    /\ InitThread(AllSessions, {TRUE})
    /\ InitLinux
SpecTwoSessions == InitTwoSessions /\ [][NextEdges]_vars

\* A radio in sleep or in continuous receive whose temperature functions
\* are called, over a transport that may fail.
InitTemperature ==
    /\ InitRadio({EXPECTED_VERSION}, { FreshRegs, UsedRegs })
    /\ InitBridge({TRUE}, {FALSE})
    /\ InitHost
NextTemperature ==
    \/ CalibrateTemperature
    \/ ReadTemperature
SpecTemperature == InitTemperature /\ [][NextTemperature]_vars

\* The same radio when the IQ inversion is set between the temperature
\* calls.
NextInvertIQ ==
    \/ SetInvertIQ
    \/ CalibrateTemperature
    \/ ReadTemperature
SpecInvertIQ == InitTemperature /\ [][NextInvertIQ]_vars

\* A radio whose configuration is set and read back, one register group at
\* a time: transmit power, the spreading factor, the frequency, then
\* bandwidth and coding rate, which share modem-config-1.
InitConfig ==
    /\ InitRadio({EXPECTED_VERSION}, { FreshRegs })
    /\ InitBridge({TRUE}, {FALSE})
    /\ InitHost
NextPower ==
    \/ SetTxPower
    \/ GetTxPower
SpecPower == InitConfig /\ [][NextPower]_vars

InitSpreading ==
    /\ InitRadio({EXPECTED_VERSION}, { FreshRegs, TunedRegs })
    /\ InitBridge({TRUE}, {FALSE})
    /\ InitHost
NextSpreading ==
    \/ SetSpreadingFactor
    \/ GetSpreadingFactor
SpecSpreading == InitSpreading /\ [][NextSpreading]_vars

\* The six setters of the transmit power and of the modem fields, each
\* called as the first configuration call on a radio as begin() leaves it,
\* with the modem tuned, or with bits carried over from an earlier use.
InitSetters ==
    /\ InitRadio({EXPECTED_VERSION}, { BegunRegs, TunedRegs, CarriedRegs })
    /\ InitBridge({TRUE}, {FALSE})
    /\ InitHost
NextSetters ==
    \/ op = "none" /\ SetTxPower
    \/ op = "none" /\ SetSpreadingFactor
    \/ op = "none" /\ SetBandwidth
    \/ op = "none" /\ SetCodingRate
    \/ op = "none" /\ SetAutoAGC
    \/ op = "none" /\ SetLNA
SpecSetters == InitSetters /\ [][NextSetters]_vars

NextFrequency ==
    \/ SetFrequency
    \/ GetFrequency
SpecFrequency == InitConfig /\ [][NextFrequency]_vars

\* A radio after a successful begin() whose operating mode is changed by
\* the calls that write it: the mode calls in any order, then one send or
\* one receive.
InitModes ==
    /\ InitRadio({EXPECTED_VERSION}, { BegunRegs })
    /\ InitBridge({TRUE}, {FALSE})
    /\ InitHost
NextModes ==
    \/ StandbyMode
    \/ SleepMode
    \/ ReceiveMode
    \/ SetContinuousReceive
    \/ SendCall
    \/ SendPoll
    \/ ReceiveCall
    \/ ReceivePoll
SpecModes == InitModes /\ [][NextModes]_vars

\* The two implementations of SPIInterface side by side: a bridge session
\* and a Linux SPI session wired to a device of the same kind, each opened
\* and used for transfers by one thread, one call at a time.
InitBackends ==
    /\ InitRadio({EXPECTED_VERSION}, { FreshRegs })
    /\ InitBridge({TRUE}, {FALSE})
    /\ InitHost
NextBackends ==
    \/ Open
    \/ TransferBegin
    \/ TransferWriteCmd
    \/ TransferWriteResp
    \/ TransferReadCmd
    \/ TransferReadResp
    \/ TransferEnd
    \/ LinuxOpen
    \/ LinuxTransfer
SpecBackends == InitBackends /\ [][NextBackends]_vars

NextModem1 ==
    \/ SetBandwidth
    \/ GetBandwidth
    \/ SetCodingRate
    \/ GetCodingRate
SpecModem1 == InitConfig /\ [][NextModem1]_vars


(***************************************************************************)
(* Properties of begin (checked under SpecBegin).                          *)
(***************************************************************************)
BeginReturned == op = "begin" /\ pc = "returned"

IsWrite(e, addrs) == e.op = "w" /\ e.addr \in addrs
IsRead(e, addr) == e.op = "r" /\ e.addr = addr

\* FIFO base addresses, modem configuration, power amplifier, LNA.
BeginConfigRegs ==
    { REG_FIFO_TX_BASE_ADDR, REG_FIFO_RX_BASE_ADDR, REG_MODEM_CONFIG_1,
      REG_MODEM_CONFIG_2, REG_MODEM_CONFIG_3, REG_PA_CONFIG, REG_PA_DAC, REG_LNA }

\* C7: if any register read or write performed by begin fails at the
\* transport, begin returns false; so begin returns true only if every one
\* of its register writes reached the radio.
C7_BeginAbortsOnTransportFailure ==
    BeginReturned =>
        \A i \in 1..Len(bus) : ~bus[i].ok => result = FALSE

\* C8: when the value begin reads from the version register is not 0x12 it
\* returns false and has written none of the FIFO base-address, modem
\* configuration, power-amplifier or LNA registers; every such write comes
\* after a version read that returned 0x12.
C8_VersionGatesConfiguration ==
    BeginReturned =>
        /\ \A i \in 1..Len(bus) :
             (IsRead(bus[i], REG_VERSION) /\ bus[i].val # EXPECTED_VERSION)
               => /\ result = FALSE
                  /\ \A j \in 1..Len(bus) : ~IsWrite(bus[j], BeginConfigRegs)
        /\ \A j \in 1..Len(bus) :
             IsWrite(bus[j], BeginConfigRegs)
               => \E i \in 1..(j - 1) :
                     IsRead(bus[i], REG_VERSION) /\ bus[i].val = EXPECTED_VERSION

\* begin has read a revision other than 0x12 from a radio that answered.
C8_Witness ==
    /\ BeginReturned
    /\ result = FALSE
    /\ \E i \in 1..Len(bus) :
         IsRead(bus[i], REG_VERSION) /\ bus[i].ok /\ bus[i].val = EXPECTED_VERSION - 1


(***************************************************************************)
(* Properties of send (checked under SpecSend).                            *)
(***************************************************************************)
SendReturned == op = "send" /\ pc = "returned"

\* The flags read that opens a loop iteration's log b, and whether the value
\* readRegister returned for it has all bits of mask set.
FlagsRead(b) == Len(b) >= 1 /\ IsRead(b[1], REG_IRQ_FLAGS)
FlagsHave(b, mask) == FlagsRead(b) /\ BitAnd(b[1].val, mask) = mask

\* C2: an iteration of send's wait loop whose flags read does not show
\* transmit-done (a failed read included) returns only by the timeout, with
\* false and more than 2000 ms after the loop began; an iteration begun more
\* than 2000 ms after the loop began is the last one; and an iteration that
\* goes on polling has let the clock advance, so send does not poll forever.
C2_SendTimesOut ==
    [][ (pc = "tx_wait" /\ ~FlagsHave(bus', IRQ_TX_DONE_MASK))
          => /\ (clock - start_time > TX_TIMEOUT_MS) => pc' = "returned"
             /\ (pc' = "returned")
                  => (result' = FALSE /\ clock' - start_time > TX_TIMEOUT_MS)
             /\ (pc' = "tx_wait") => clock' > clock ]_vars

\* send has returned false through the timeout while every read failed.
C2_Witness ==
    /\ SendReturned
    /\ Len(data) <= MAX_PAYLOAD
    /\ result = FALSE
    /\ clock - start_time > TX_TIMEOUT_MS
    /\ FlagsRead(bus) /\ ~bus[1].ok

\* C6: whenever send returns, the IQ registers hold the non-inverted pair
\* (0x27 in the IQ register, 0x1D in the IQ-adjustment register).
C6_SendLeavesIqNormal ==
    SendReturned =>
        (regs[REG_INVERTIQ] = IQ_NORMAL /\ regs[REG_INVERTIQ2] = IQ2_NORMAL)

(***************************************************************************)
(* Properties of receive (checked under SpecReceive).                      *)
(***************************************************************************)
ReceiveReturned == op = "receive" /\ pc = "returned"

RX_DONE_WITH_CRC_ERROR == IRQ_RX_DONE_MASK + IRQ_PAYLOAD_CRC_ERROR_MASK

\* The log b of a loop iteration that read receive-done with the CRC-error flag.
CrcPoll(b) == FlagsHave(b, RX_DONE_WITH_CRC_ERROR)

\* The log b of a loop iteration that read receive-done without CRC error and
\* went on to read the byte count.
CleanPoll(b) ==
    /\ FlagsHave(b, IRQ_RX_DONE_MASK)
    /\ ~FlagsHave(b, IRQ_PAYLOAD_CRC_ERROR_MASK)
    /\ Len(b) >= 2
    /\ IsRead(b[2], REG_RX_NB_BYTES)

\* The values of the FIFO reads of log b, in order.
FifoValues(b) ==
    LET reads == SelectSeq(b, LAMBDA e : IsRead(e, REG_FIFO))
    IN  [ k \in 1..Len(reads) |-> reads[k].val ]

\* C1: once more than the caller's timeout has elapsed since polling began,
\* the loop iteration then begun is the last: receive returns in it.
C1_ReceiveReturnsAfterTimeout ==
    [][ (pc = "rx_wait" /\ clock - start_time > timeout) => pc' = "returned" ]_vars

\* C3: a poll that reads receive-done with the CRC-error flag does not end the
\* call: it writes 0xFF to the IRQ-flags register, nothing else, and receive
\* keeps polling; and when the poll after it reads receive-done without CRC
\* error and a nonzero byte count, receive returns that packet.
C3_CrcErrorIsTransient ==
    [][ (pc = "rx_wait")
          => /\ CrcPoll(bus')
                  => /\ pc' = "rx_wait"
                     /\ Len(bus') = 2
                     /\ IsWrite(bus'[2], {REG_IRQ_FLAGS}) /\ bus'[2].val = 255
             /\ (CrcPoll(bus) /\ CleanPoll(bus') /\ bus'[2].val > 0)
                  => /\ pc' = "returned"
                     /\ Len(packet') = bus'[2].val
                     /\ packet' = FifoValues(bus') ]_vars

\* receive is still polling after a poll that read a CRC error.
C3_Witness ==
    /\ op = "receive" /\ pc = "rx_wait"
    /\ CrcPoll(bus) /\ bus[1].ok
    /\ polls < MaxPolls

\* What receive returns when the timeout elapses without receive-done.
ReceiveTimeoutResult ==
    recvPoll(Machine(FreshRegs, NoFail, QuietEnv), FALSE, 1, 0, 0).m.pkt

\* C4: the result of a call during which receive-done was signalled with a
\* byte count of 0 differs from the result returned on a timeout.
C4_EmptyPacketDiffersFromTimeout ==
    (ReceiveReturned /\ CleanPoll(bus) /\ bus[1].ok /\ bus[2].ok /\ bus[2].val = 0)
        => packet # ReceiveTimeoutResult

\* C5: when a poll reads receive-done without CRC error and a byte count
\* n > 0, receive reads the current RX address, writes it to the FIFO address
\* pointer, then performs exactly n FIFO reads, then clears the IRQ flags
\* (then only restores the IQ pair), and returns those n bytes in order.
C5_CleanReception ==
    (op = "receive" /\ CleanPoll(bus) /\ bus[2].val > 0)
        => LET n == bus[2].val
           IN  /\ pc = "returned"
               /\ Len(bus) = n + 5 + (IF invert_iq THEN 2 ELSE 0)
               /\ IsRead(bus[3], REG_FIFO_RX_CURRENT_ADDR)
               /\ IsWrite(bus[4], {REG_FIFO_ADDR_PTR}) /\ bus[4].val = bus[3].val
               /\ \A i \in 1..Len(bus) : IsRead(bus[i], REG_FIFO) <=> i \in 5..(n + 4)
               /\ IsWrite(bus[n + 5], {REG_IRQ_FLAGS}) /\ bus[n + 5].val = 255
               /\ \A i \in (n + 6)..Len(bus) : IsWrite(bus[i], {REG_INVERTIQ, REG_INVERTIQ2})
               /\ packet = [ i \in 1..n |-> bus[i + 4].val ]

\* receive has returned a 255-byte packet read from RX address 128.
C5_Witness ==
    /\ ReceiveReturned
    /\ CleanPoll(bus)
    /\ \A i \in 1..Len(bus) : bus[i].ok
    /\ bus[2].val = 255
    /\ bus[3].val = 128
    /\ Len(packet) = 255 /\ packet[1] = RxSeed /\ packet[3] = (RxSeed + 2) % 256

(***************************************************************************)
(* Properties of the bridge's transfer (checked under SpecTransfer).       *)
(***************************************************************************)
TransferReturned == xop = "transfer" /\ xpc = "idle"

IsBulkOut(e, cmd) == e.ep = "out" /\ e.bytes = cmd

\* C9: transfer returns an empty sequence whenever a bulk transfer inside it
\* fails (the chip-select-low command, an SPI-stream command of either phase,
\* or a response read); the result is never partly filled, and the failed
\* bulk transfer is not retried (it is the last bulk call of the transfer).
C9_TransferEmptyOnFailure ==
    TransferReturned =>
        /\ \A i \in 1..Len(usb) :
             (~usb[i].ok /\ ~IsBulkOut(usb[i], csHighCmd))
               => (xfer_result = <<>> /\ i = Len(usb))
        /\ Len(xfer_result) \in { 0, read_length }

\* C10: a transfer that has sent the chip-select-low command sends the
\* chip-select-high command before it returns, whatever the bulk transfers in
\* between did; so on an open session with no transfer in progress the chip's
\* chip-select output is high, as far as the commands sent were delivered.
C10_ChipSelectReleased ==
    /\ TransferReturned =>
         \A i \in 1..Len(usb) :
            (IsBulkOut(usb[i], csLowCmd) /\ usb[i].ok)
              => \E j \in (i + 1)..Len(usb) : IsBulkOut(usb[j], csHighCmd)
    /\ (device /\ xpc = "idle" /\ \A i \in 1..Len(usb) : usb[i].ok)
         => chip_out = UIO_CS_HIGH

(***************************************************************************)
(* open(), close() and isActive() of the bridge session.                   *)
(***************************************************************************)
OpenReturned == xop = "open" /\ xpc = "idle"

\* C16: whenever open() returns false, the session holds no device handle
\* afterwards (device is null, nothing stays opened or claimed), whatever
\* sequence of open() and close() calls came before.
C16_FailedOpenHoldsNoHandle ==
    (OpenReturned /\ ~open_result) => (~device /\ opened = NoDevice /\ handles = 0)

\* C18: isActive() returns true exactly when the most recent open() returned
\* true and close() has not been called since.
C18_IsActiveTracksOpenClose ==
    xop = "isActive" => (active_result = (open_result /\ ~closed_since))

\* C19: with n devices enumerated, open() returns false for every
\* device_index outside 0..n-1, negative ones included, and an open() that
\* succeeds holds the device at position device_index.
C19_OpenChecksIndex ==
    xop = "open" =>
        /\ device_index \notin 0..(attached - 1) => (xpc = "idle" /\ ~open_result)
        /\ (xpc = "idle" /\ open_result) => opened = device_index

(***************************************************************************)
(* GPIO calls of the bridge session.                                       *)
(***************************************************************************)
\* The bit of a cached byte that belongs to a pin.
PinBit(byte, pin) == BitAnd(byte, pin)

\* C20: digitalWrite(A, level) changes only bit A of the cached output byte
\* and only bit A of the cached direction byte; on an open session,
\* digitalWrite(A, high) followed by digitalWrite(B, low), B different from
\* A, leaves A's cached output bit high and A's cached direction bit output.
C20_DigitalWriteTouchesOnePin ==
    [][ xop' = "digitalWrite" =>
          /\ \A b \in ByteBits \ { gpio_pin' } :
                /\ PinBit(gpio_output', b) = PinBit(gpio_output, b)
                /\ PinBit(gpio_direction', b) = PinBit(gpio_direction, b)
          /\ ( /\ device
               /\ xop = "digitalWrite" /\ gpio_level
               /\ gpio_pin' # gpio_pin /\ ~gpio_level' )
             => /\ PinBit(gpio_output', gpio_pin) = gpio_pin
                /\ PinBit(gpio_direction', gpio_pin) = gpio_pin
      ]_vars

\* digitalWrite(PIN_D5, low) has returned on an open session whose caches
\* started as zero and were changed by digitalWrite(PIN_D0, high) before.
C20_Witness ==
    /\ xop = "digitalWrite" /\ device
    /\ gpio_pin = PIN_D5 /\ ~gpio_level
    /\ gpio_output = PIN_D0
    /\ gpio_direction = PIN_D0 + PIN_D5

(***************************************************************************)
(* Calls on a session that holds no device handle.                         *)
(***************************************************************************)
GpioCalls == { "digitalWrite", "digitalRead", "pinMode" }

CloseReleased == xop = "close" /\ usb # <<>>

\* C12: after a close() that released the device handle has returned, the
\* monitoring thread of the session is no longer running: it has been
\* stopped and joined, and makes no bulk call on the released handle.
C12_CloseStopsThread == CloseReleased => mon_pc[1] = "none"

\* C11: within one session bulk exchanges never interleave: while a transfer
\* is between its first and its last bulk call, the monitoring thread of the
\* session makes no bulk write and no bulk read on the device.
C11_BulkCallsSerialized ==
    [][ (xpc \in { "write_cmd", "write_resp", "read_cmd", "read_resp", "cs_high" }
           /\ mon_pc[1] \in { "write", "read" })
          => mon_pc' = mon_pc ]_vars

(***************************************************************************)
(* Edge detection of the monitoring thread.                                *)
(***************************************************************************)
\* The level session s saw at its last successful poll ("none": no poll yet).
LastPolled(s) == IF polled[s] = <<>> THEN "none" ELSE polled[s][Len(polled[s])]

IsLow(pinState) == BitAnd(pinState, INT_MASK) = 0

\* What a poll of session s does with the callback of session s: a
\* successful poll that reads bit 0x40 low after the session's previous
\* successful poll read it high invokes the registered callback; a poll that
\* reads it low again, reads it high, or fails, invokes nothing.
EdgeRule(s) ==
    /\ \A p \in PinStates :
          pollStep(s, TRUE, p) =>
            /\ (LastPolled(s) = "high" /\ IsLow(p)) => (fired'[s] = interruptCallback[s])
            /\ (LastPolled(s) = "low" \/ ~IsLow(p)) => ~fired'[s]
    /\ \A p \in PinStates : pollStep(s, FALSE, p) => ~fired'[s]

\* C14: for one session with interrupts enabled, the registered callback is
\* invoked exactly once for each transition of status bit 0x40 from high to
\* low between two consecutive successful polls, and not again by later
\* polls while the bit stays low.
C14_OneCallbackPerFallingEdge == [][EdgeRule(1)]_vars

\* The session's poll read the bit low after its previous poll had read it
\* high, and the callback was invoked.
C14_Witness ==
    /\ sessions = { 1 }
    /\ polled[1] = << "high", "low" >>
    /\ mon_pc[1] = "sleep"
    /\ fired[1]

\* C15: edge detection is per session: with two sessions polling in one
\* process, whether a poll of a session invokes that session's callback
\* depends only on that session's own previous poll, so that the polls of
\* the other session cause neither a missed edge nor a second callback on a
\* level that is held low.
C15_EdgesArePerSession == [][\A s \in sessions : EdgeRule(s)]_vars

(***************************************************************************)
(* The temperature functions.                                              *)
(***************************************************************************)
TemperatureCalls == { "readTemperature", "calibrateTemperature" }

\* C21: after readTemperature() or calibrateTemperature() returns, the
\* operating-mode register holds exactly the value it held when the call
\* began, on every path, those with a failed transfer included.
C21_TemperatureRestoresMode ==
    [][ op' \in TemperatureCalls => regs'[REG_OP_MODE] = regs[REG_OP_MODE] ]_vars

\* C22: calibrateTemperature returns true only if the calibration value
\* reached the calibration register; with the transport closed or a
\* transfer of the call failing, it returns false.
C22_CalibrateReportsFailure ==
    (op = "calibrateTemperature" /\ result) =>
        /\ \A i \in 1..Len(bus) : bus[i].ok
        /\ \E i \in 1..Len(bus) : bus[i].op = "w" /\ bus[i].addr = REG_TEMP_CAL

(***************************************************************************)
(* Setters and getters: what is read back after a value was set.  A getter *)
(* called right after a setter, with no transfer of either call failing.   *)
(***************************************************************************)
BusOk(b) == \A i \in 1..Len(b) : b[i].ok

ReadBack(setter, getter) ==
    /\ op = setter /\ BusOk(bus)
    /\ op' = getter /\ BusOk(bus')

\* C23: transmit power round-trips: getTxPower() after setTxPower(level,
\* mode) returns level for boosted mode and every level in 2..20, and for
\* non-boosted mode and every level in 0..15; a level outside the range of
\* the mode is read back as the nearest bound of the range.
C23_TxPowerRoundTrip ==
    [][ ReadBack("setTxPower", "getTxPower") =>
          cfg_ret' = (IF cfg_arg[2] THEN clamp(cfg_arg[1], 2, 20)
                                    ELSE clamp(cfg_arg[1], 0, 15)) ]_vars



\* What the getters return for a register file r when no transfer fails.
BandwidthOf(r) == getBandwidth(Machine(r, NoFail, QuietEnv)).ret
CodingRateOf(r) == getCodingRate(Machine(r, NoFail, QuietEnv)).ret

\* The smallest index of the table whose entry is at least r, 9 when r
\* exceeds every entry.
TableIndex(r) ==
    LET fit == { i \in 0..9 : bws[i + 1] >= r }
    IN  IF fit = {} THEN 9 ELSE CHOOSE i \in fit : \A j \in fit : i <= j

\* C24: setBandwidth(r) stores in the high nibble of modem-config-1 the
\* smallest index of the ascending table whose entry is at least r, or 9
\* when r exceeds 500 kHz, and getBandwidth() then returns the entry at that
\* index (no transfer failing).
C24_BandwidthPicksTableEntry ==
    [][ /\ (op' = "setBandwidth" /\ BusOk(bus'))
             => regs'[REG_MODEM_CONFIG_1] \div 16 = TableIndex(cfg_arg'[1])
        /\ ReadBack("setBandwidth", "getBandwidth")
             => cfg_ret' = bws[TableIndex(cfg_arg[1]) + 1] ]_vars

\* 100 kHz was asked for, stored as index 7 and read back as 125 kHz.
C24_Witness ==
    /\ op = "getBandwidth"
    /\ BusOk(bus)
    /\ cfg_arg = << 10000 >>
    /\ regs[REG_MODEM_CONFIG_1] \div 16 = 7
    /\ cfg_ret = 12500

\* A denominator as the coding-rate field can hold it.
Denominator(d) == IF d < 5 THEN 5 ELSE IF d > 8 THEN 8 ELSE d

\* C26: getCodingRate() after setCodingRate(d) returns d for d in 5..8, 5
\* for smaller and 8 for larger d; setCodingRate leaves what getBandwidth
\* returns as it was and setBandwidth leaves what getCodingRate returns as
\* it was (no transfer failing).
C26_CodingRateAndBandwidthApart ==
    [][ /\ ReadBack("setCodingRate", "getCodingRate")
             => cfg_ret' = Denominator(cfg_arg[1])
        /\ (op' = "setCodingRate" /\ BusOk(bus'))
             => /\ BandwidthOf(regs') = BandwidthOf(regs)
                /\ CodingRateOf(regs') = Denominator(cfg_arg'[1])
        /\ (op' = "setBandwidth" /\ BusOk(bus'))
             => CodingRateOf(regs') = CodingRateOf(regs) ]_vars

\* Coding rate 4/7 was set, then 100 kHz was asked for, and both read back.
C26_Witness ==
    /\ op = "getCodingRate"
    /\ BusOk(bus)
    /\ cfg_arg = << 10000 >>
    /\ cfg_ret = 7
    /\ BandwidthOf(regs) = 12500

\* A spreading factor as the radio accepts it.
Factor(sf) == IF sf < 6 THEN 6 ELSE IF sf > 12 THEN 12 ELSE sf

\* C25: setSpreadingFactor(sf) clamps sf to 6..12, leaves 0xC5/0x0C in the
\* detection-optimize/threshold pair for factor 6 and 0xC3/0x0A for 7..12,
\* stores the factor in the high nibble of modem-config-2 with the low
\* nibble as it was, and getSpreadingFactor() then returns the clamped
\* factor (no transfer failing).
C25_SpreadingFactorStored ==
    [][ /\ (op' = "setSpreadingFactor" /\ BusOk(bus'))
             => LET c == Factor(cfg_arg'[1])
                IN  /\ regs'[REG_DETECTION_OPTIMIZE] = IF c = 6 THEN 197 ELSE 195
                    /\ regs'[REG_DETECTION_THRESHOLD] = IF c = 6 THEN 12 ELSE 10
                    /\ regs'[REG_MODEM_CONFIG_2] \div 16 = c
                    /\ regs'[REG_MODEM_CONFIG_2] % 16 = regs[REG_MODEM_CONFIG_2] % 16
        /\ ReadBack("setSpreadingFactor", "getSpreadingFactor")
             => cfg_ret' = Factor(cfg_arg[1]) ]_vars

\* Factor 5 was asked for on a radio with the payload CRC on: 6 is read
\* back, the pair of factor 6 is in place and the CRC bit is still set.
C25_Witness ==
    /\ op = "getSpreadingFactor"
    /\ BusOk(bus)
    /\ cfg_arg = << 5 >>
    /\ cfg_ret = 6
    /\ regs[REG_DETECTION_OPTIMIZE] = 197
    /\ regs[REG_DETECTION_THRESHOLD] = 12
    /\ regs[REG_MODEM_CONFIG_2] = 96 + 4

\* The range the synthesizer of the radio tunes to, 137 to 1020 MHz.
Tunable(freq) == 137 * MHz <= freq /\ freq <= 1020 * MHz

\* One synthesizer step, 32 MHz / 2^19, is four units.
Within(a, b, d) == a - b <= d /\ b - a <= d

\* C27: for every float frequency f of the tunable range, setFrequency(f)
\* issues three writes, to the MSB, the MID and the LSB frequency register
\* in this order, of the three bytes of one 24-bit word, and getFrequency()
\* then returns a value no further than one synthesizer step from f (no
\* transfer failing).
C27_FrequencyRoundTrip ==
    [][ /\ (op' = "setFrequency" /\ BusOk(bus') /\ Tunable(cfg_arg'[1]))
             => /\ Len(bus') = 3
                /\ \A i \in 1..3 : bus'[i].op = "w" /\ bus'[i].val \in 0..255
                /\ << bus'[1].addr, bus'[2].addr, bus'[3].addr >>
                     = << REG_FRF_MSB, REG_FRF_MID, REG_FRF_LSB >>
                /\ Within((bus'[1].val * 65536 + bus'[2].val * 256 + bus'[3].val) * 4,
                          cfg_arg'[1], 4)
        /\ (ReadBack("setFrequency", "getFrequency") /\ Tunable(cfg_arg[1]))
             => Within(cfg_ret', cfg_arg[1], 4) ]_vars

\* 169 MHz and three quarters of a step was set and is read back as 169
\* MHz, the fraction of the step cut off.
C27_Witness ==
    /\ op = "getFrequency"
    /\ BusOk(bus)
    /\ cfg_arg = << 169 * MHz + 3 >>
    /\ cfg_ret = 169 * MHz
    /\ regs[REG_FRF_MSB] = 42 /\ regs[REG_FRF_MID] = 64 /\ regs[REG_FRF_LSB] = 0

\* The positions of the writes of a step to one of the registers as.
WritesTo(b, as) == { i \in 1..Len(b) : b[i].op = "w" /\ b[i].addr \in as }

\* C28: send with a payload of more than 255 bytes returns false without a
\* transfer, so that no register of the radio changes; send with a payload
\* of 0..255 bytes writes the payload-length register once, with the size
\* of the payload.
C28_SendChecksPayloadSize ==
    [][ (pc = "idle" /\ op' = "send")
          => IF Len(data') > 255
             THEN /\ pc' = "returned"
                  /\ result' = FALSE
                  /\ bus' = <<>>
                  /\ regs' = regs
             ELSE /\ Cardinality(WritesTo(bus', { REG_PAYLOAD_LENGTH })) = 1
                  /\ \A i \in WritesTo(bus', { REG_PAYLOAD_LENGTH }) :
                       bus'[i].val = Len(data') ]_vars

\* A payload of 256 bytes was refused on a radio left in continuous
\* receive: nothing went over the bus and the radio still receives.
C28_Witness ==
    /\ SendReturned
    /\ Len(data) = 256
    /\ ~result
    /\ bus = <<>>
    /\ regs = UsedRegs

\* The setup of send as its bus log b shows it, for payload d: the IQ
\* writes, then a write mapping the done indicator (bits 7..6 of DIO
\* mapping 1 set to 01), then standby, then all IRQ flags cleared, then the
\* FIFO address pointer set to 0, then the bytes of d in order, then the
\* payload length, and the switch to transmit mode as the last transfer.
SetupInOrder(b, d) ==
    \E q \in WritesTo(b, { REG_DIO_MAPPING_1 }),
       s \in WritesTo(b, { REG_OP_MODE }),
       c \in WritesTo(b, { REG_IRQ_FLAGS }),
       p \in WritesTo(b, { REG_FIFO_ADDR_PTR }) :
        /\ WritesTo(b, { REG_INVERTIQ, REG_INVERTIQ2 }) # {}
        /\ \A i \in WritesTo(b, { REG_INVERTIQ, REG_INVERTIQ2 }) : i < q
        /\ b[q].val \div 64 = 1
        /\ q < s /\ b[s].val = MODE_STDBY
        /\ s < c /\ b[c].val = 255
        /\ c < p /\ b[p].val = 0
        /\ WritesTo(b, { REG_FIFO }) = (p + 1)..(p + Len(d))
        /\ \A i \in 1..Len(d) : b[p + i].val = d[i]
        /\ WritesTo(b, { REG_PAYLOAD_LENGTH }) = { p + Len(d) + 1 }
        /\ Len(b) = p + Len(d) + 2
        /\ b[Len(b)].op = "w" /\ b[Len(b)].addr = REG_OP_MODE
        /\ b[Len(b)].val = MODE_TX
        /\ \A i \in WritesTo(b, { REG_OP_MODE }) : b[i].val = MODE_TX => i = Len(b)

\* C30: send with a payload of at most 255 bytes issues its steps in the
\* order IQ configuration, done-indicator mapping, standby, clearing of all
\* IRQ flags, FIFO address pointer 0, one FIFO write per payload byte in
\* payload order, payload length, switch to transmit mode; the wait loop
\* writes neither the FIFO nor the payload length; and send returns true
\* only from an iteration that read transmit-done, then issued the clearing
\* of the flags and then the write of standby.
C30_SendStepsInOrder ==
    /\ (op = "send" /\ pc = "tx_wait" /\ polls = 0) => SetupInOrder(bus, data)
    /\ (op = "send" /\ polls > 0) => WritesTo(bus, { REG_FIFO, REG_PAYLOAD_LENGTH }) = {}
    /\ (SendReturned /\ result)
         => /\ polls > 0
            /\ Len(bus) >= 3
            /\ bus[1].op = "r" /\ bus[1].addr = REG_IRQ_FLAGS /\ bus[1].ok
            /\ BitAnd(bus[1].val, IRQ_TX_DONE_MASK) # 0
            /\ bus[2].op = "w" /\ bus[2].addr = REG_IRQ_FLAGS /\ bus[2].val = 255
            /\ bus[3].op = "w" /\ bus[3].addr = REG_OP_MODE /\ bus[3].val = MODE_STDBY

\* The two-byte payload was sent: after the setup had put both bytes into
\* the FIFO a poll read transmit-done and send returned true.
C30_Witness ==
    /\ SendReturned
    /\ result
    /\ data = << 72, 105 >>
    /\ regs[REG_FIFO] = 105
    /\ regs[REG_PAYLOAD_LENGTH] = 2
    /\ regs[REG_OP_MODE] = MODE_STDBY
    /\ BusOk(bus)

\* The two exchanges of the radio driver: readRegister writes the address
\* and asks for one byte, writeRegister writes address and value and asks
\* for none.
DriverExchange(wd, rl) ==
    \/ Len(wd) = 1 /\ rl = 1
    \/ Len(wd) = 2 /\ rl = 0

\* The bridge's latest transfer ran to its end with no bulk call failing.
BridgeDone ==
    /\ xop = "transfer" /\ xpc = "idle"
    /\ usb # <<>>
    /\ \A i \in 1..Len(usb) : usb[i].ok

\* The bytes the device answered to the bridge's transfer, one per byte
\* clocked, in order.
IsIn(e) == e.ep = "in"
BridgeMiso == [ i \in 1..Len(SelectSeq(usb, IsIn)) |-> SelectSeq(usb, IsIn)[i].bytes[1] ]

\* The Linux session's latest transfer ran its ioctl with success.
LinuxDone == fd /\ rx_buffer # <<>>

\* Both sessions were given the same exchange and the device answered
\* both alike, byte for byte as far as both clocked.
SameExchange ==
    /\ BridgeDone /\ LinuxDone
    /\ lx_write_data = write_data /\ lx_read_length = read_length
    /\ DriverExchange(write_data, read_length)
    /\ \A k \in 1..Len(BridgeMiso) : k <= Len(rx_buffer) => rx_buffer[k] = BridgeMiso[k]

\* RFM95::readRegister on a response: its first byte, 0 when it is empty.
RegisterValue(response) == IF response # <<>> THEN response[1] ELSE 0

\* C29: for the two exchanges of the radio driver and the same answers of
\* the device, the bridge session and the Linux SPI session clock the same
\* number of bytes and return the same bytes, so that readRegister yields
\* the same value over either.
C29_BackendsEquivalent ==
    SameExchange
      => /\ Len(rx_buffer) = Len(BridgeMiso)
         /\ lx_result = xfer_result
         /\ RegisterValue(lx_result) = RegisterValue(xfer_result)

\* C31: after a successful begin(), every value written to the
\* operating-mode register by standbyMode, sleepMode, send, receive,
\* receiveMode and setContinuousReceive has bit 0x80 set and differs from
\* the register's value before the call in the 3-bit mode field only.
C31_LoRaFlagPersists ==
    [][ op' \in { "standbyMode", "sleepMode", "send", "receive", "receiveMode",
                  "setContinuousReceive" }
          => \A i \in WritesTo(bus', { REG_OP_MODE }) :
               /\ bus'[i].val >= 128
               /\ bus'[i].val \div 8 = regs[REG_OP_MODE] \div 8 ]_vars

\* C32: the output and the direction byte a GPIO command carries equal,
\* for every pin but the one the call operates on, the level and the
\* direction sent to the chip last for that pin (by open, by a transfer or
\* by a GPIO call): the command leaves those bits of the chip's latches as
\* they were.
C32_GpioCommandsKeepOtherPins ==
    [][ xop' \in GpioCalls
          => \A b \in { 1, 2, 4, 8, 16, 32 } \ { gpio_pin' } :
                /\ PinBit(chip_out', b) = PinBit(chip_out, b)
                /\ PinBit(chip_dir', b) = PinBit(chip_dir, b) ]_vars

\* C33: a transfer sends a chip-select or SPI-stream command only if the
\* most recent open() sent the clock-speed configuration command and then
\* the pin-enable command, both with success, which is when open() returns
\* true; an open() in which one of the two commands fails returns false
\* and leaves the session closed.
C33_TransferOnlyAfterConfiguredOpen ==
    /\ (xop = "transfer" /\ usb # <<>>) => open_result
    /\ (xop = "open" /\ open_result)
         => usb = << BulkOut(configStreamCmd, TRUE), BulkOut(enablePinsCmd(TRUE), TRUE) >>
    /\ (xop = "open" /\ \E i \in 1..Len(usb) :
                           /\ ~usb[i].ok
                           /\ usb[i].bytes \in { configStreamCmd, enablePinsCmd(TRUE) })
         => ~open_result /\ ~device

IqPair(r) ==
    << r[REG_INVERTIQ], r[REG_INVERTIQ2] >>
        \in { << IQ_INVERTED, IQ2_INVERTED >>, << IQ_NORMAL, IQ2_NORMAL >> }

\* C34: the IQ register 0x33 and the IQ-adjustment register 0x3B are written
\* as a pair: an operation that writes one of the two addresses writes the
\* other as well, setInvertIQ leaves (0x66, 0x19) or (0x27, 0x1D) in them,
\* and no later operation over a working transport takes the two registers
\* out of these pairs.
C34_IqRegistersWrittenAsPair ==
    [][ /\ (WritesTo(bus', { REG_INVERTIQ }) # {})
             <=> (WritesTo(bus', { REG_INVERTIQ2 }) # {})
        /\ (op' = "setInvertIQ" /\ BusOk(bus')) => IqPair(regs')
        /\ (IqPair(regs) /\ BusOk(bus')) => IqPair(regs') ]_vars

\* The bits of register a that setter encodes its arguments in.
FieldBits(setter, a) ==
    CASE setter = "setTxPower" /\ a = REG_PA_CONFIG -> 128 + 15
      [] setter = "setSpreadingFactor" /\ a = REG_MODEM_CONFIG_2 -> 240
      [] setter = "setSpreadingFactor" /\ a = REG_DETECTION_OPTIMIZE -> 7
      [] setter = "setSpreadingFactor" /\ a = REG_DETECTION_THRESHOLD -> 255
      [] setter = "setBandwidth" /\ a = REG_MODEM_CONFIG_1 -> 240
      [] setter = "setCodingRate" /\ a = REG_MODEM_CONFIG_1 -> 14
      [] setter = "setAutoAGC" /\ a = REG_MODEM_CONFIG_3 -> 4
      [] setter = "setLNA" /\ a = REG_MODEM_CONFIG_3 -> 4
      [] setter = "setLNA" /\ a = REG_LNA -> 224 + 3
      [] OTHER -> 0

Setters ==
    { "setTxPower", "setSpreadingFactor", "setBandwidth", "setCodingRate",
      "setAutoAGC", "setLNA" }

\* C35: setTxPower, setSpreadingFactor, setBandwidth, setCodingRate,
\* setAutoAGC and setLNA are read-modify-writes: each register a setter
\* writes is read by it first, and over a working transport every bit
\* outside the field the setter encodes keeps the value it had before the
\* call.
C35_SettersKeepOtherBits ==
    [][ (op' \in Setters /\ BusOk(bus'))
          => /\ \A i \in 1..Len(bus') :
                  (bus'[i].op = "w" /\ FieldBits(op', bus'[i].addr) # 255)
                    => \E j \in 1..(i - 1) :
                         bus'[j].op = "r" /\ bus'[j].addr = bus'[i].addr
             /\ \A a \in RegAddrs :
                  BitAnd(regs'[a], 255 - FieldBits(op', a))
                    = BitAnd(regs[a], 255 - FieldBits(op', a)) ]_vars

IsSpiStream(e) == e.ep = "out" /\ e.bytes[1] = CMD_SPI_STREAM

\* The SPI-stream commands sent before entry i of the log, and the place of
\* the n-th response read.
StreamsBefore(u, i) == Cardinality({ j \in 1..(i - 1) : IsSpiStream(u[j]) })
NthIn(u, n) ==
    CHOOSE i \in 1..Len(u) :
        /\ u[i].ep = "in"
        /\ Cardinality({ j \in 1..i : u[j].ep = "in" }) = n

\* The byte transfer() returns for a response byte.
Presented(byte) == IF lsb_first THEN swapBits(byte) ELSE byte

\* C36: in a transfer every SPI-stream command carries one byte and is
\* followed by one bulk read of one byte before anything else is sent, and
\* every bulk read follows such a command; the commands after the first
\* Len(write_data) ones carry the dummy byte 0xFF; a transfer all of whose
\* bulk calls succeeded returns read_length bytes, the k-th of them the
\* response to the k-th read-phase command, the responses to the written
\* bytes being in no way part of the result.
C36_OneByteCommandThenOneByteRead ==
    xop = "transfer" =>
        /\ \A i \in 1..Len(usb) :
             /\ IsSpiStream(usb[i])
                  => /\ Len(usb[i].bytes) = 2
                     /\ ~usb[i].ok => i = Len(usb)
                     /\ i < Len(usb) => usb[i + 1].ep = "in"
                     /\ StreamsBefore(usb, i) >= Len(write_data)
                          => usb[i].bytes = << CMD_SPI_STREAM, SPI_DUMMY >>
             /\ usb[i].ep = "in"
                  => /\ i > 1 /\ IsSpiStream(usb[i - 1])
                     /\ usb[i].ok => Len(usb[i].bytes) = 1
        /\ (TransferReturned /\ usb # <<>> /\ BusOk(usb))
             => /\ Len(xfer_result) = read_length
                /\ \A k \in 1..read_length :
                     xfer_result[k]
                       = Presented(usb[NthIn(usb, Len(write_data) + k)].bytes[1])

\* A transfer of two written bytes and two read bytes has returned, every
\* bulk call having succeeded, with two different bytes read.
C36_Witness ==
    /\ TransferReturned
    /\ BusOk(usb)
    /\ write_data = << 129, 3 >>
    /\ read_length = 2
    /\ ~lsb_first
    /\ xfer_result = << 3, 18 >>
    /\ usb[3].bytes = << 18 >> /\ usb[5].bytes = << 18 >>

\* Bit i of a byte, and r being b with its eight bits in reverse order.
BitOf(b, i) == (b \div (2 ^ i)) % 2
Mirrored(b, r) == r \in Bytes /\ \A i \in 0..7 : BitOf(r, 7 - i) = BitOf(b, i)

\* C37: swapBits reverses the bit order of a byte and is its own inverse on
\* 0..255 (0b00000011 becomes 0b11000000); with lsb_first a written byte b
\* goes on the wire with its bits reversed and each read-phase response is
\* returned with its bits reversed; without lsb_first both pass unchanged.
C37_BitSwapBothWays ==
    /\ xop = "swapBits"
         => /\ Mirrored(write_data[1], xfer_result[1])
            /\ swapBits(xfer_result[1]) = write_data[1]
            /\ (write_data[1] = 3) => (xfer_result[1] = 192)
    /\ xop = "transfer"
         => /\ \A i \in 1..Len(usb) :
                 (IsSpiStream(usb[i]) /\ StreamsBefore(usb, i) < Len(write_data))
                   => LET b == write_data[StreamsBefore(usb, i) + 1]
                          w == usb[i].bytes[2]
                      IN  IF lsb_first THEN Mirrored(b, w) ELSE w = b
            /\ \A k \in 1..Len(xfer_result) :
                 LET r == usb[NthIn(usb, Len(write_data) + k)].bytes[1]
                 IN  IF lsb_first THEN Mirrored(r, xfer_result[k])
                                  ELSE xfer_result[k] = r

\* With lsb_first a transfer has sent the byte 0b00000011 as 0b11000000 and
\* returned the response 0b00010010 as 0b01001000.
C37_Witness ==
    /\ TransferReturned
    /\ lsb_first
    /\ BusOk(usb)
    /\ write_data = << 129, 3 >>
    /\ Len(usb) >= 7
    /\ usb[2].bytes = << CMD_SPI_STREAM, 129 >>
    /\ usb[4].bytes = << CMD_SPI_STREAM, 192 >>
    /\ read_length >= 1
    /\ usb[7].bytes = << 18 >>
    /\ xfer_result[1] = 72

\* The poll logged in b read receive-done without CRC error and then a byte
\* count of 0.
ZeroCountPoll(b) ==
    /\ Len(b) >= 2
    /\ b[1].op = "r" /\ b[1].addr = REG_IRQ_FLAGS
    /\ BitAnd(b[1].val, IRQ_RX_DONE_MASK) # 0
    /\ BitAnd(b[1].val, IRQ_PAYLOAD_CRC_ERROR_MASK) = 0
    /\ b[2].op = "r" /\ b[2].addr = REG_RX_NB_BYTES /\ b[2].val = 0

\* The poll logged in b read a packet out of the FIFO.
PacketPoll(b) ==
    \E i \in 1..Len(b) : b[i].op = "r" /\ b[i].addr = REG_FIFO_RX_CURRENT_ADDR

\* C38: receive returns an empty sequence only from its timeout check: a
\* poll that returns before that check has read a packet and returns 1 to
\* 255 bytes, an empty result is returned only with the timeout elapsed,
\* and a poll that reads receive-done with a byte count of 0 writes nothing
\* and leaves the call waiting, unless the timeout check of the same
\* iteration ends the call.
C38_ReceiveEmptyOnlyOnTimeout ==
    [][ (pc = "rx_wait" /\ op = "receive")
          => /\ (pc' = "returned" /\ PacketPoll(bus'))
                  => Len(packet') \in 1..255
             /\ (pc' = "returned" /\ ~PacketPoll(bus'))
                  => /\ packet' = <<>>
                     /\ clock' - start_time > timeout
             /\ (pc' = "returned" /\ packet' = <<>>)
                  => /\ ~PacketPoll(bus')
                     /\ clock' - start_time > timeout
             /\ ZeroCountPoll(bus')
                  => IF pc' = "returned"
                     THEN packet' = <<>> /\ clock' - start_time > timeout
                     ELSE pc' = "rx_wait" /\ Len(bus') = 2 ]_vars

\* receive is still waiting after a poll that read receive-done with a byte
\* count of 0 and wrote nothing.
C38_Witness ==
    /\ op = "receive"
    /\ pc = "rx_wait"
    /\ polls >= 1
    /\ ZeroCountPoll(bus)
    /\ Len(bus) = 2
    /\ BusOk(bus)

\* C39: a session has at most one monitoring thread: a thread is started
\* only by enableInterrupt(true) on a session whose interrupts are disabled
\* and whose previous thread, if any, was joined; enableInterrupt(true) on
\* an enabled session returns false and starts nothing; enableInterrupt(false)
\* on a disabled session returns false and joins nothing.
C39_AtMostOneMonitorThread ==
    [][ /\ \A s \in AllSessions :
             /\ (interruptEnabled'[s] /\ ~interruptEnabled[s])
                  => (mon_pc[s] = "none" /\ mon_pc'[s] = "test")
             /\ (mon_pc[s] = "none" /\ mon_pc'[s] # "none")
                  => (~interruptEnabled[s] /\ interruptEnabled'[s] /\ irq_result')
        /\ (EnableInterruptOn /\ interruptEnabled[1])
             => /\ ~irq_result'
                /\ UNCHANGED << mon_pc, threadRunning, interruptEnabled, caller >>
        /\ (EnableInterruptOff /\ ~interruptEnabled[1])
             => /\ ~irq_result'
                /\ UNCHANGED << mon_pc, threadRunning, interruptEnabled, caller >> ]_vars

\* enableInterrupt(true) has returned false on a session whose interrupts
\* were enabled, the thread started by the first call still polling.
C39_Witness ==
    /\ xop = "enableInterrupt"
    /\ ~irq_result
    /\ interruptEnabled[1]
    /\ threadRunning[1]
    /\ mon_pc[1] \notin { "none", "exited" }

\* C40: a send that returns false on the timeout has written neither the
\* IRQ-flags register nor the operating-mode register since it switched to
\* transmit mode.  The switch is the last transfer of the setup; an
\* iteration of the wait loop that does not return true, the one that
\* returns false on the timeout included, writes neither register and
\* leaves the operating mode as it was; standby is written only by the
\* iteration that returns true.
C40_TimedOutSendLeavesTransmitMode ==
    [][ /\ (op' = "send" /\ pc = "idle" /\ pc' = "tx_wait")
             => /\ bus'[Len(bus')].op = "w"
                /\ bus'[Len(bus')].addr = REG_OP_MODE
                /\ bus'[Len(bus')].val = MODE_TX
        /\ (op = "send" /\ pc = "tx_wait" /\ ~(pc' = "returned" /\ result'))
             => /\ WritesTo(bus', { REG_IRQ_FLAGS, REG_OP_MODE }) = {}
                /\ regs'[REG_OP_MODE] = regs[REG_OP_MODE]
        /\ (op = "send" /\ pc = "tx_wait"
              /\ \E i \in WritesTo(bus', { REG_OP_MODE }) : bus'[i].val = MODE_STDBY)
             => (pc' = "returned" /\ result') ]_vars

\* send with inverted IQ has returned false on the timeout: its last
\* iteration read the flags and restored the IQ registers, and the radio is
\* still in transmit mode.
C40_Witness ==
    /\ SendReturned
    /\ ~result
    /\ Len(data) <= MAX_PAYLOAD
    /\ invert_iq
    /\ BusOk(bus)
    /\ FlagsRead(bus)
    /\ WritesTo(bus, { REG_INVERTIQ }) # {}
    /\ WritesTo(bus, { REG_IRQ_FLAGS, REG_OP_MODE }) = {}
    /\ regs[REG_OP_MODE] = MODE_TX
    /\ clock - start_time > TX_TIMEOUT_MS

=============================================================================
